---- MODULE Spec2Model ----
(***************************************************************************)
(* Concurrent::Array of goby (vm/concurrent_array.go): a plain ArrayObject *)
(* behind one sync.RWMutex, every method forwarded through                 *)
(* DefineForwardedConcurrentArrayMethod.  Threads are interpreter threads  *)
(* calling forwarded methods; a call is a frame on the thread's stack, a   *)
(* block that calls back into a concurrent array pushes a second frame.    *)
(* Element storage is modelled as Go slices: a header (backing array,      *)
(* length) over a backing array that several headers may share.            *)
(***************************************************************************)
EXTENDS Integers, Sequences, FiniteSets, TLC

\* ---------------------------------------------------------------- bounds
NumThreads == 2
MaxLen == 2
MaxSeqCalls == 3

Threads == 1 .. NumThreads
Vals == {1, 2}
Root == 1
Arrays == 1 .. (1 + 2 * NumThreads)
StoreIds == 1 .. (2 + 4 * NumThreads)

\* ------------------------------------------------------ forwarding table
ConcurrentArrayMethodsForwardingTable ==
  ("[]" :> FALSE) @@ ("*" :> FALSE) @@ ("+" :> FALSE) @@ ("[]=" :> TRUE) @@
  ("any?" :> FALSE) @@ ("at" :> FALSE) @@ ("clear" :> TRUE) @@
  ("concat" :> TRUE) @@ ("count" :> FALSE) @@ ("delete_at" :> TRUE) @@
  ("each" :> FALSE) @@ ("each_index" :> FALSE) @@ ("empty?" :> FALSE) @@
  ("first" :> FALSE) @@ ("flatten" :> FALSE) @@ ("join" :> FALSE) @@
  ("last" :> FALSE) @@ ("length" :> FALSE) @@ ("map" :> FALSE) @@
  ("pop" :> TRUE) @@ ("push" :> TRUE) @@ ("reduce" :> FALSE) @@
  ("reverse" :> FALSE) @@ ("reverse_each" :> FALSE) @@ ("rotate" :> FALSE) @@
  ("select" :> FALSE) @@ ("shift" :> TRUE) @@ ("unshift" :> TRUE) @@
  ("values_at" :> FALSE)

\* A table in which the exclusive flag is lost: every method takes RLock.
AllSharedTable ==
  [n \in DOMAIN ConcurrentArrayMethodsForwardingTable |-> FALSE]

\* A table with one slip: concat entered as a reading method.
ConcatSharedTable ==
  [ConcurrentArrayMethodsForwardingTable EXCEPT !["concat"] = FALSE]

\* The table the methods are defined from (initConcurrentArrayClass).
ForwardingTable == ConcurrentArrayMethodsForwardingTable

\* A method that takes the lock of the other kind.
RequireWriteLockInverted(methodName) == ~ForwardingTable[methodName]
\* requireWriteLock of the method defined for methodName.
RequireWriteLock(methodName) == ForwardingTable[methodName]

\* A closure that captured the range variable: every method forwards to the
\* name of one table entry.
ForwardedNameCaptured(methodName) == "length"

\* The name looked up on the internal array: findMethod(methodName).
ForwardedName(methodName) == methodName

\* The methods the threads of this model call.
WriteOps == {"push", "[]="}
BlockOps == {"each", "select"}
CalledOps == {"length"} \cup BlockOps \cup WriteOps
InnerOps == {"length", "push"}

\* ---------------------------------------------------------------- values
Null == [k |-> "null", n |-> 0, s |-> <<>>]
IntObj(n) == [k |-> "int", n |-> n, s |-> <<>>]
ErrObj(kind) == [k |-> kind, n |-> 0, s |-> <<>>]
SelfArray == [k |-> "array", n |-> 1, s |-> <<>>]
FreshArray(s) == [k |-> "array", n |-> 0, s |-> s]
CArray(id) == [k |-> "carray", n |-> id, s |-> <<>>]
Panicked == [k |-> "panic", n |-> 0, s |-> <<>>]
NoValue == [k |-> "none", n |-> 0, s |-> <<>>]

\* A slice header; st = 0 is a slice without backing array.
NoHdr == [st |-> 0, len |-> 0]
NoCb == [kind |-> "none", arr |-> 0, op |-> "", v |-> 0]

VARIABLES
  store,    \* backing arrays: store[s] is a sequence, its length the capacity
  src,      \* slice header of the plain ArrayObject the root was built from
  elems,    \* elems[a]: InternalArray.Elements of concurrent array a
  readers,  \* readers[a]: read locks held on a's RWMutex
  writer,   \* writer[a]: "free", "pending" (Lock called, waiting), "held"
  stack,    \* stack[t]: the frames of thread t's calls, innermost last
  result,   \* result[t]: what thread t's last finished call returned
  calls     \* calls[t]: the calls thread t has issued

\* Concurrent::Hash (vm/concurrent_hash.go) and object equality.
VARIABLES
  maps,         \* maps[m]: the keys Go map / sync.Map m holds, with their values
  internalMap,  \* the sync.Map of the concurrent hash, 0 before there is one
  hframe,       \* hframe[t]: thread t's last hash call, and its traversal (each)
  hresult,      \* hresult[t]: what thread t's last hash call returned
  wrote,        \* wrote[t]: what thread t last stored under its own key
  eq            \* the two objects compared last and what equalTo answered

\* Base objects, classes and the plugin bridge (vm/object.go, vm/null.go,
\* the plugin package).
VARIABLES
  heap,     \* heap[s]: the BaseObj allocated in slot s of the Go heap
  classes,  \* classes[c]: the class descriptor c, with its method table
  newpc,    \* newpc[t]: the slot of the object thread t is constructing, or 0
  ores,     \* the last operation on an object and what it returned
  plug      \* the PluginObject: its plugin field and the last builtin call

avars == <<store, src, elems, readers, writer, stack, result>>
hvars == <<maps, internalMap, hframe, hresult, wrote, eq>>
ovars == <<heap, classes, newpc, ores, plug>>
vars == <<store, src, elems, readers, writer, stack, result, calls,
          maps, internalMap, hframe, hresult, wrote, eq,
          heap, classes, newpc, ores, plug>>

\* ------------------------------------------------------------ Go slices
Cap(st, s) == IF s = 0 THEN 0 ELSE Len(st[s])
Contents(st, h) == [j \in 1 .. h.len |-> st[h.st][j]]
\* growslice for small slices: the capacity doubles.
GrowCap(c) == IF c = 0 THEN 1 ELSE 2 * c
Pad(s, c) == s \o [j \in 1 .. (c - Len(s)) |-> 0]
Min(S) == CHOOSE x \in S : \A y \in S : x <= y
\* The capacity of a slice built by appending n elements to a nil slice.
CapOf(n) == IF n = 0 THEN 0 ELSE Min({c \in {1, 2, 4, 8, 16} : c >= n})
\* A backing array no slice header refers to.
FreeStore(st) == Min({s \in StoreIds : st[s] = <<>>})

\* append(h, v): in place while the capacity allows, else into a new array.
\* The result is <<store, header>>.
SliceAppend(st, h, v) ==
  IF h.len < Cap(st, h.st)
  THEN <<[st EXCEPT ![h.st][h.len + 1] = v], [st |-> h.st, len |-> h.len + 1]>>
  ELSE LET s2 == FreeStore(st)
       IN <<[st EXCEPT ![s2] = Pad(Append(Contents(st, h), v), GrowCap(Cap(st, h.st)))],
            [st |-> s2, len |-> h.len + 1]>>

\* ---------------------------------------------------------------- frames
\* A forwarded method that never takes the lock.
StartPcNoLock == "run"
\* Where a forwarded method starts: at the lock.
StartPc == "acquire"

NewFrame(a, op, v, cb) ==
  [arr |-> a, op |-> op, v |-> v, cb |-> cb, pc |-> StartPc, i |-> 0,
   loc |-> NoHdr, acc |-> <<>>, ret |-> NoValue, dv |-> 0, dcb |-> NoCb,
   held |-> "none"]

Depth(t) == Len(stack[t])
Top(t) == stack[t][Len(stack[t])]
SetTop(t, f) == [stack EXCEPT ![t] = [@ EXCEPT ![Len(@)] = f]]
Frames(stk) == {p \in Threads \X {1, 2} : p[2] <= Len(stk[p[1]])}

\* ------------------------------------------------- reachability (the GC)
LiveArrays(stk, res) ==
  ({Root} \cup {res[t].n : t \in {u \in Threads : res[u].k = "carray"}}
          \cup {stk[p[1]][p[2]].arr : p \in Frames(stk)}
          \cup {stk[p[1]][p[2]].cb.arr : p \in Frames(stk)}
          \cup {stk[p[1]][p[2]].ret.n :
                  p \in {q \in Frames(stk) : stk[q[1]][q[2]].ret.k = "carray"}}) \ {0}
StoreRefs(sr, el, live, stk) ==
  ({sr.st} \cup {el[a].st : a \in live}
           \cup {stk[p[1]][p[2]].loc.st : p \in Frames(stk)}) \ {0}
\* A concurrent array object no thread can reach.
FreeArray(stk, res) == Min(Arrays \ LiveArrays(stk, res))

\* The next state: the given values, with unreachable objects reclaimed.
Install(st, sr, el, rd, wr, stk, res) ==
  \E live \in {LiveArrays(stk, res)} :
    \E refs \in {StoreRefs(sr, el, live, stk)} :
      /\ store' = [s \in StoreIds |-> IF s \in refs THEN st[s] ELSE <<>>]
      /\ src' = sr
      /\ elems' = [a \in Arrays |-> IF a \in live THEN el[a] ELSE NoHdr]
      /\ readers' = [a \in Arrays |-> IF a \in live THEN rd[a] ELSE 0]
      /\ writer' = [a \in Arrays |-> IF a \in live THEN wr[a] ELSE "free"]
      /\ stack' = stk
      /\ result' = res
      /\ UNCHANGED <<hvars, ovars>>

\* ------------------------------------------------- Concurrent::Hash state
\* The string keys "k1", "k2", ...: one per thread.
HKeys == Threads
StrObj(i) == [k |-> "string", n |-> i, s |-> <<>>]
BoolObj(b) == [k |-> "bool", n |-> IF b THEN 1 ELSE 0, s |-> <<>>]
\* The concurrent hash object itself, as a method returns it.
CHash == [k |-> "chash", n |-> 1, s |-> <<>>]
\* The plain HashObject handed to Concurrent::Hash.new.
PlainHash == [k |-> "hash", n |-> 1, s |-> <<>>]
\* A key without entry.
Absent == [k |-> "absent", n |-> 0, s |-> <<>>]
\* Map 1 is the Pairs of the plain HashObject, map 2 a sync.Map.
PairsMap == 1
MapIds == {PairsMap, PairsMap + 1}
EmptyMap == [key \in HKeys |-> Absent]
NoTraversal == [op |-> "", args |-> <<>>, pc |-> "idle", todo |-> {},
                visits |-> [key \in HKeys |-> <<>>], stable |-> EmptyMap]
NoEq == [a |-> Null, b |-> Null, res |-> "none"]

\* No concurrent hash yet, no comparison made.
HashIdle ==
  /\ maps = [m \in MapIds |-> EmptyMap]
  /\ internalMap = 0
  /\ hframe = [t \in Threads |-> NoTraversal]
  /\ hresult = [t \in Threads |-> NoValue]
  /\ wrote = [t \in Threads |-> NoValue]
  /\ eq = NoEq

\* ----------------------------------------------------------- object state
\* The slots of the Go heap a BaseObj can be allocated in.
MaxObjs == 3
Slots == 1 .. MaxObjs
\* Class descriptors: Object, the user class Foo < Object, and the singleton
\* class of an object; 0 is the nil *RClass.
ObjectClass == 1
FooClass == 2
SingletonOfFoo == 3
ClassIds == {ObjectClass, FooClass, SingletonOfFoo}
MethodNames == {"x", "method_missing", "to_json"}
\* The nil Object a lookup returns when there is no method.
NoMethod == [kind |-> "nil", owner |-> 0, name |-> ""]
\* A method defined in the language (*MethodObject) and a builtin one
\* (*BuiltinMethodObject), in the table of class c.
MethodObject(c, name) == [kind |-> "*MethodObject", owner |-> c, name |-> name]
BuiltinMethodObject(c, name) ==
  [kind |-> "*BuiltinMethodObject", owner |-> c, name |-> name]
EmptyMethods == [n \in MethodNames |-> NoMethod]
RClass(name, super) == [Name |-> name, Methods |-> EmptyMethods, superClass |-> super]
\* The class hierarchy before any method is defined.
BareClasses ==
  [c \in ClassIds |->
     CASE c = ObjectClass -> RClass("Object", 0)
       [] c = FooClass -> RClass("Foo", ObjectClass)
       [] OTHER -> RClass("#<Class:Foo>", 0)]
\* The instance variables an object can have.
EnvNames == {"@a", "@context"}
\* newEnvironment(): no variable is set.
NewEnvironment == [n \in EnvNames |-> Absent]
\* A heap slot nothing is allocated in.
FreeSlot == [class |-> 0, singletonClass |-> 0, InstanceVariables |-> NewEnvironment,
             id |-> 0, state |-> "free"]
NoStr == [text |-> "", cls |-> "", id |-> 0]
NoOp == [op |-> "", obj |-> 0, arg |-> "", meth |-> NoMethod, val |-> NoValue,
         str |-> NoStr, flag |-> "none"]
NoPlugin == [plugin |-> "nil", op |-> "", fail |-> "none", ret |-> NoValue,
             called |-> "false"]

\* No object constructed, no method defined, no plugin call made.
ObjIdle ==
  /\ heap = [s \in Slots |-> FreeSlot]
  /\ classes = BareClasses
  /\ newpc = [t \in Threads |-> 0]
  /\ ores = NoOp
  /\ plug = NoPlugin

\* ------------------------------------------------------------------ Init
\* src = [1]; the root is Concurrent::Array.new(src).
ArrayInit ==
  /\ store = [s \in StoreIds |-> IF s = 1 THEN <<1>> ELSE <<>>]
  /\ src = [st |-> 1, len |-> 1]
  /\ elems = [a \in Arrays |-> IF a = Root THEN [st |-> 1, len |-> 1] ELSE NoHdr]
  /\ readers = [a \in Arrays |-> 0]
  /\ writer = [a \in Arrays |-> "free"]
  /\ stack = [t \in Threads |-> <<>>]
  /\ result = [t \in Threads |-> NoValue]
  /\ calls = [t \in Threads |-> 0]

Init ==
  /\ ArrayInit
  /\ HashIdle
  /\ ObjIdle

\* ------------------------------------------------------------- the calls
Targets(t) == {Root} \cup (IF result[t].k = "carray" THEN {result[t].n} ELSE {})
\* The blocks a call may be given: none, one that returns, one that fails,
\* one that calls a forwarded method of a concurrent array.
Blocks(t) ==
  {NoCb, [NoCb EXCEPT !.kind = "ret"], [NoCb EXCEPT !.kind = "fail"]} \cup
  {[kind |-> "call", arr |-> a, op |-> op, v |-> IF op = "push" THEN 1 ELSE 0] :
     a \in Targets(t), op \in InnerOps}

\* A thread calls a forwarded method of a concurrent array it can reach.
Invoke(t) ==
  /\ stack[t] = <<>>
  /\ \E a \in Targets(t), op \in CalledOps, v \in Vals \cup {0}, cb \in Blocks(t) :
       /\ (op \in WriteOps) = (v # 0)
       /\ op \notin BlockOps => cb = NoCb
       /\ op = "push" => elems[a].len < MaxLen
       /\ Install(store, src, elems, readers, writer,
                  [stack EXCEPT ![t] = <<NewFrame(a, op, v, cb)>>],
                  [result EXCEPT ![t] = NoValue])
  /\ calls' = [calls EXCEPT ![t] = @ + 1]

\* Each of the concurrent threads issues one call.
Call(t) ==
  /\ calls[t] = 0
  /\ Invoke(t)

\* concurrentArray.RLock(): admitted unless a writer holds or waits.
AcquireRead(t) ==
  /\ stack[t] # <<>>
  /\ Top(t).pc = "acquire"
  /\ ~RequireWriteLock(Top(t).op)
  /\ writer[Top(t).arr] = "free"
  /\ Install(store, src, elems, [readers EXCEPT ![Top(t).arr] = @ + 1], writer,
             SetTop(t, [Top(t) EXCEPT !.pc = "run", !.held = "shared"]), result)
  /\ UNCHANGED calls

\* concurrentArray.Lock(), first half: the writer announces itself.
LockAnnounce(t) ==
  /\ stack[t] # <<>>
  /\ Top(t).pc = "acquire"
  /\ RequireWriteLock(Top(t).op)
  /\ writer[Top(t).arr] = "free"
  /\ Install(store, src, elems, readers, [writer EXCEPT ![Top(t).arr] = "pending"],
             SetTop(t, [Top(t) EXCEPT !.pc = "wwait"]), result)
  /\ UNCHANGED calls

\* concurrentArray.Lock(), second half: the readers have left.
LockEnter(t) ==
  /\ stack[t] # <<>>
  /\ Top(t).pc = "wwait"
  /\ readers[Top(t).arr] = 0
  /\ Install(store, src, elems, readers, [writer EXCEPT ![Top(t).arr] = "held"],
             SetTop(t, [Top(t) EXCEPT !.pc = "run", !.held = "exclusive"]), result)
  /\ UNCHANGED calls

\* A forwarding that drops the block.
PassedBlockDropped(cb) == NoCb
\* The block handed to the internal array's method: blockFrame itself.
PassedBlock(cb) == cb

\* Array#length of the plain array.
PlainLength(h) == IntObj(h.len)

\* arrayMethodObject.Fn(InternalArray, ...) of a method without block that
\* only reads.
RunRead(t) ==
  /\ stack[t] # <<>>
  /\ Top(t).pc = "run"
  /\ ForwardedName(Top(t).op) = "length"
  /\ Install(store, src, elems, readers, writer,
             SetTop(t, [Top(t) EXCEPT !.pc = "unlock", !.dv = Top(t).v,
                                      !.dcb = PassedBlock(Top(t).cb),
                                      !.ret = PlainLength(elems[Top(t).arr])]), result)
  /\ UNCHANGED calls

\* A writing method loads the Elements header it is about to change.
RunLoad(t) ==
  /\ stack[t] # <<>>
  /\ Top(t).pc = "run"
  /\ ForwardedName(Top(t).op) \in WriteOps
  /\ Install(store, src, elems, readers, writer,
             SetTop(t, [Top(t) EXCEPT !.pc = "commit", !.dv = Top(t).v,
                                      !.dcb = PassedBlock(Top(t).cb),
                                      !.loc = elems[Top(t).arr]]), result)
  /\ UNCHANGED calls

\* Array#push and Array#[]= (index 0) on the loaded header:
\* <<store, header, returned object>>.
PlainWrite(st, h, name, v) ==
  IF name = "push" \/ h.len = 0
  THEN LET r == SliceAppend(st, h, v)
       IN <<r[1], r[2], IF name = "push" THEN SelfArray ELSE IntObj(v)>>
  ELSE <<[st EXCEPT ![h.st][1] = v], h, IntObj(v)>>

\* The writing method stores its result into the internal array.
Commit(t) ==
  /\ stack[t] # <<>>
  /\ Top(t).pc = "commit"
  /\ \E w \in {PlainWrite(store, Top(t).loc, ForwardedName(Top(t).op), Top(t).dv)} :
       Install(w[1], src, [elems EXCEPT ![Top(t).arr] = w[2]], readers, writer,
               SetTop(t, [Top(t) EXCEPT !.pc = "unlock", !.loc = NoHdr, !.ret = w[3]]),
               result)
  /\ UNCHANGED calls

\* Array#each, Array#select start: without block an error object, else the
\* range over Elements begins.
RunBlock(t) ==
  /\ stack[t] # <<>>
  /\ Top(t).pc = "run"
  /\ ForwardedName(Top(t).op) \in BlockOps
  /\ Install(store, src, elems, readers, writer,
             SetTop(t, IF PassedBlock(Top(t).cb) = NoCb
                       THEN [Top(t) EXCEPT !.pc = "unlock", !.dv = Top(t).v,
                                           !.ret = ErrObj("InternalError")]
                       ELSE [Top(t) EXCEPT !.pc = "iter", !.dv = Top(t).v,
                                           !.dcb = PassedBlock(Top(t).cb), !.i = 1,
                                           !.loc = elems[Top(t).arr]]), result)
  /\ UNCHANGED calls

\* Every object but nil is truthy; select keeps the elements whose block
\* value is truthy.
Truthy(val) == val.k # "null"
Keep(f, x, val) == IF f.op = "select" /\ Truthy(val) THEN Append(f.acc, x) ELSE f.acc
\* What the plain method returns when its range ends: each the array itself,
\* select the array of the kept elements.
BlockResult(name, acc) == IF name = "each" THEN SelfArray ELSE FreshArray(acc)

\* The range is exhausted: each returns the array, select the new array.
IterDone(t) ==
  /\ stack[t] # <<>>
  /\ Top(t).pc = "iter"
  /\ Top(t).i > Top(t).loc.len
  /\ Install(store, src, elems, readers, writer,
             SetTop(t, [Top(t) EXCEPT !.pc = "unlock", !.loc = NoHdr, !.acc = <<>>,
                                      !.i = 0,
                                      !.ret = BlockResult(ForwardedName(Top(t).op),
                                                         Top(t).acc)]),
             result)
  /\ UNCHANGED calls

\* builtinMethodYield of a block that makes no call: truthy for element 1.
\* (A block that pushes makes no call once its target is full.)
IterYield(t) ==
  /\ stack[t] # <<>>
  /\ Top(t).pc = "iter"
  /\ Top(t).i <= Top(t).loc.len
  /\ \/ Top(t).dcb.kind = "ret"
     \/ /\ Top(t).dcb.kind = "call"
        /\ Top(t).dcb.op = "push"
        /\ elems[Top(t).dcb.arr].len >= MaxLen
  /\ \E x \in {store[Top(t).loc.st][Top(t).i]} :
       Install(store, src, elems, readers, writer,
               SetTop(t, [Top(t) EXCEPT !.i = @ + 1,
                                        !.acc = Keep(Top(t), x,
                                                     IF x = 1 THEN IntObj(1) ELSE Null)]),
               result)
  /\ UNCHANGED calls

\* The block calls a forwarded method: a second frame on this thread.
IterCall(t) ==
  /\ stack[t] # <<>>
  /\ Top(t).pc = "iter"
  /\ Top(t).i <= Top(t).loc.len
  /\ Top(t).dcb.kind = "call"
  /\ Top(t).dcb.op = "push" => elems[Top(t).dcb.arr].len < MaxLen
  /\ Install(store, src, elems, readers, writer,
             [stack EXCEPT ![t] =
                <<[Top(t) EXCEPT !.pc = "yield", !.ret = NoValue],
                  NewFrame(Top(t).dcb.arr, Top(t).dcb.op, Top(t).dcb.v, NoCb)>>],
             result)
  /\ UNCHANGED calls

\* The block fails: the panic unwinds the forwarded method past its unlock.
IterPanic(t) ==
  /\ stack[t] # <<>>
  /\ Top(t).pc = "iter"
  /\ Top(t).i <= Top(t).loc.len
  /\ Top(t).dcb.kind = "fail"
  /\ Install(store, src, elems, readers, writer,
             [stack EXCEPT ![t] = <<>>], [result EXCEPT ![t] = Panicked])
  /\ UNCHANGED calls

\* concurrentArray.Unlock() / RUnlock().
Release(t) ==
  /\ stack[t] # <<>>
  /\ Top(t).pc = "unlock"
  /\ Install(store, src, elems,
             IF RequireWriteLock(Top(t).op) THEN readers
             ELSE [readers EXCEPT ![Top(t).arr] = @ - 1],
             IF RequireWriteLock(Top(t).op) THEN [writer EXCEPT ![Top(t).arr] = "free"]
             ELSE writer,
             SetTop(t, [Top(t) EXCEPT !.pc = "wrap", !.held = "none"]), result)
  /\ UNCHANGED calls

\* The forwarded method's answer that leaves a plain array unwrapped.
WrapResultPlain(ret, new) == ret
\* switch result.(type): an *ArrayObject becomes a new ConcurrentArrayObject.
WrapResult(ret, new) == IF ret.k = "array" THEN CArray(new) ELSE ret

\* The Elements of the plain array a delegate returned, as <<store, header>>:
\* the internal array's own header, or a new backing array for a new array.
ResultElements(st, f) ==
  IF f.ret.n = 1 THEN <<st, elems[f.arr]>>
  ELSE IF f.ret.s = <<>> THEN <<st, NoHdr>>
  ELSE LET s2 == FreeStore(st)
       IN <<[st EXCEPT ![s2] = Pad(f.ret.s, CapOf(Len(f.ret.s)))],
            [st |-> s2, len |-> Len(f.ret.s)]>>

\* initConcurrentArrayObject(elements): the InternalArray is built over
\* elements[:], the same backing array.
InitConcurrentArrayObject(el, new, h) == [el EXCEPT ![new] = h]

\* The forwarded method returns: to the thread's program, or to the block
\* that called it, whose range then goes on.
Wrap(t) ==
  /\ stack[t] # <<>>
  /\ Top(t).pc = "wrap"
  /\ \E new \in {FreeArray(stack, result)} :
     \E res \in {WrapResult(Top(t).ret, new)} :
     \E re \in {IF res.k = "carray" THEN ResultElements(store, Top(t))
                ELSE <<store, NoHdr>>} :
       Install(re[1], src,
               IF res.k = "carray" THEN InitConcurrentArrayObject(elems, new, re[2])
               ELSE elems,
               readers, writer,
               [stack EXCEPT ![t] =
                  IF Depth(t) = 1 THEN <<>>
                  ELSE <<[stack[t][1] EXCEPT
                            !.pc = "iter", !.i = @ + 1, !.ret = res,
                            !.acc = Keep(stack[t][1],
                                         store[stack[t][1].loc.st][stack[t][1].i], res)]>>],
               IF Depth(t) = 1 THEN [result EXCEPT ![t] = res] ELSE result)
  /\ UNCHANGED calls

\* Concurrent::Array.new with no argument, the plain array, an object that
\* is no array, or two arguments.
NewWith(t, args) ==
  /\ stack[t] = <<>>
  /\ calls[t] < MaxSeqCalls
  /\ \E new \in {FreeArray(stack, [result EXCEPT ![t] = NoValue])} :
       Install(store, src,
               IF args \in {"none", "array"}
               THEN InitConcurrentArrayObject(elems, new,
                                              IF args = "array" THEN src ELSE NoHdr)
               ELSE elems,
               readers, writer, stack,
               [result EXCEPT ![t] =
                  IF args \in {"none", "array"} THEN CArray(new)
                  ELSE IF args = "other" THEN ErrObj("TypeError")
                  ELSE ErrObj("ArgumentError")])
  /\ calls' = [calls EXCEPT ![t] = @ + 1]

New(t) == \E args \in {"none", "array", "other", "two"} : NewWith(t, args)

\* The thread changes the plain array itself: Array#push, Array#[]=.
PlainOp(t) ==
  /\ stack[t] = <<>>
  /\ calls[t] < MaxSeqCalls
  /\ \E name \in WriteOps, v \in Vals :
       /\ name = "push" => src.len < MaxLen
       /\ \E w \in {PlainWrite(store, src, name, v)} :
            Install(w[1], w[2], elems, readers, writer, stack, result)
  /\ calls' = [calls EXCEPT ![t] = @ + 1]

\* One thread issues several calls, one after the other.
SeqCall(t) ==
  /\ calls[t] < MaxSeqCalls
  /\ Invoke(t)

\* The steps of a call in progress.
Work(t) ==
  \/ AcquireRead(t)
  \/ LockAnnounce(t)
  \/ LockEnter(t)
  \/ RunRead(t)
  \/ RunLoad(t)
  \/ Commit(t)
  \/ RunBlock(t)
  \/ IterDone(t)
  \/ IterYield(t)
  \/ IterCall(t)
  \/ IterPanic(t)
  \/ Release(t)
  \/ Wrap(t)

Step(t) == Call(t) \/ Work(t)

Next == \E t \in Threads : Step(t)

Spec == Init /\ [][Next]_vars

\* Every thread that can take a step eventually takes one.
SpecFair == Init /\ [][Next]_vars /\ \A t \in Threads : WF_vars(Step(t))

\* Two concurrent arrays, the root and a second one every thread was handed,
\* each holding [1].
InitPair ==
  /\ store = [s \in StoreIds |-> IF s \in {1, 2} THEN <<1>> ELSE <<>>]
  /\ src = [st |-> 1, len |-> 1]
  /\ elems = [a \in Arrays |-> IF a \in {Root, 2} THEN [st |-> a, len |-> 1] ELSE NoHdr]
  /\ readers = [a \in Arrays |-> 0]
  /\ writer = [a \in Arrays |-> "free"]
  /\ stack = [t \in Threads |-> <<>>]
  /\ result = [t \in Threads |-> CArray(2)]
  /\ calls = [t \in Threads |-> 0]
  /\ HashIdle
  /\ ObjIdle

SpecPair == InitPair /\ [][Next]_vars /\ \A t \in Threads : WF_vars(Step(t))

\* One thread: constructions, calls and changes of the plain array in turn.
NextSeq == SeqCall(1) \/ New(1) \/ PlainOp(1) \/ Work(1)

SpecSeq == Init /\ [][NextSeq]_vars

\* One thread: forwarded calls only, on the root and on what they returned.
NextChain == SeqCall(1) \/ Work(1)

SpecChain == Init /\ [][NextChain]_vars

\* The root holds [1 .. n], n <= 3; thread 1 calls push(4) once, every
\* other thread calls length once.
InitPushLength ==
  \E n \in 0 .. 3 :
    /\ store = [s \in StoreIds |-> IF s = 1 THEN [j \in 1 .. n |-> j] ELSE <<>>]
    /\ src = IF n = 0 THEN NoHdr ELSE [st |-> 1, len |-> n]
    /\ elems = [a \in Arrays |-> IF a = Root THEN src ELSE NoHdr]
    /\ readers = [a \in Arrays |-> 0]
    /\ writer = [a \in Arrays |-> "free"]
    /\ stack = [t \in Threads |-> <<>>]
    /\ result = [t \in Threads |-> NoValue]
    /\ calls = [t \in Threads |-> 0]
    /\ HashIdle
    /\ ObjIdle

CallPushLength(t) ==
  /\ stack[t] = <<>>
  /\ calls[t] = 0
  /\ Install(store, src, elems, readers, writer,
             [stack EXCEPT ![t] =
                <<IF t = 1 THEN NewFrame(Root, "push", 4, NoCb)
                  ELSE NewFrame(Root, "length", 0, NoCb)>>],
             result)
  /\ calls' = [calls EXCEPT ![t] = 1]

NextPushLength ==
  \E t \in Threads :
    \/ CallPushLength(t)
    \/ AcquireRead(t)
    \/ LockAnnounce(t)
    \/ LockEnter(t)
    \/ RunRead(t)
    \/ RunLoad(t)
    \/ Commit(t)
    \/ Release(t)
    \/ Wrap(t)

SpecPushLength == InitPushLength /\ [][NextPushLength]_vars

\* ======================================================= Concurrent::Hash
MaxHashCalls == 3

\* The objects a hash method is called with, and the argument lists.
HVals == {IntObj(v) : v \in Vals}
HObjs == {StrObj(key) : key \in HKeys} \cup HVals
ArgLists == UNION {[1 .. n -> HObjs] : n \in 0 .. 2}
\* What a thread calls with on its own key: the key, or the key and a value.
OwnKey(t) == {<<StrObj(t)>>}
OwnPair(t) == {<<StrObj(t), v>> : v \in HVals}

\* vm.checkArgTypes(args, sourceLine, classes.StringClass): nil, or a
\* TypeError when the first argument is no String.
CheckArgTypes(args) == IF args[1].k = "string" THEN NoValue ELSE ErrObj("TypeError")

\* Each method is <<the map afterwards, the object returned>>.
\* A Get that asserts the loaded value without looking at ok.
HashGetUnchecked(m, args) ==
  IF Len(args) # 1 THEN <<m, ErrObj("ArgumentError")>>
  ELSE IF CheckArgTypes(args) # NoValue THEN <<m, CheckArgTypes(args)>>
  ELSE IF m[args[1].n] = Absent THEN <<m, Panicked>>
  ELSE <<m, m[args[1].n]>>

\* Concurrent::Hash#[]
HashGet(m, args) ==
  IF Len(args) # 1 THEN <<m, ErrObj("ArgumentError")>>
  ELSE IF CheckArgTypes(args) # NoValue THEN <<m, CheckArgTypes(args)>>
  ELSE IF m[args[1].n] = Absent THEN <<m, Null>>
  ELSE <<m, m[args[1].n]>>

\* A Store that writes only when the key has no entry yet.
StoreIfAbsent(m, key, val) == IF m[key] = Absent THEN [m EXCEPT ![key] = val] ELSE m
\* internalMap.Store(key, value)
Store(m, key, val) == [m EXCEPT ![key] = val]

\* A Set that stores before it checks the key's type.
HashSetStoreFirst(m, args) ==
  IF Len(args) # 2 THEN <<m, ErrObj("ArgumentError")>>
  ELSE IF CheckArgTypes(args) # NoValue
  THEN <<Store(m, Min(HKeys), args[2]), CheckArgTypes(args)>>
  ELSE <<Store(m, args[1].n, args[2]), args[2]>>

\* Concurrent::Hash#[]=
HashSet(m, args) ==
  IF Len(args) # 2 THEN <<m, ErrObj("ArgumentError")>>
  ELSE IF CheckArgTypes(args) # NoValue THEN <<m, CheckArgTypes(args)>>
  ELSE <<Store(m, args[1].n, args[2]), args[2]>>

\* A Delete that empties the whole map.
DeleteAll(m, key) == EmptyMap
\* internalMap.Delete(key)
Delete(m, key) == [m EXCEPT ![key] = Absent]

\* Concurrent::Hash#delete
HashDelete(m, args) ==
  IF Len(args) # 1 THEN <<m, ErrObj("ArgumentError")>>
  ELSE IF CheckArgTypes(args) # NoValue THEN <<m, CheckArgTypes(args)>>
  ELSE <<Delete(m, args[1].n), Null>>

\* Concurrent::Hash#has_key?
HashHasKey(m, args) ==
  IF Len(args) # 1 THEN <<m, ErrObj("ArgumentError")>>
  ELSE IF CheckArgTypes(args) # NoValue THEN <<m, CheckArgTypes(args)>>
  ELSE <<m, BoolObj(m[args[1].n] # Absent)>>

HashMethods == {"[]", "[]=", "delete", "has_key?"}
HashMethod(name, m, args) ==
  IF name = "[]" THEN HashGet(m, args)
  ELSE IF name = "[]=" THEN HashSet(m, args)
  ELSE IF name = "delete" THEN HashDelete(m, args)
  ELSE HashHasKey(m, args)

\* The key a call writes: the String of a well-formed []= or delete, else 0.
WrittenKey(name, args) ==
  IF /\ name \in {"[]=", "delete"}
     /\ Len(args) = (IF name = "[]=" THEN 2 ELSE 1)
     /\ args[1].k = "string"
  THEN args[1].n ELSE 0

\* Thread t calls a method of the concurrent hash; sync.Map makes the Load,
\* Store or Delete inside it one atomic step.
HashCall(t, name, args) ==
  /\ internalMap # 0
  /\ hframe[t].pc # "range"
  /\ calls[t] < MaxHashCalls
  /\ \E r \in {HashMethod(name, maps[internalMap], args)} :
     \E key \in {WrittenKey(name, args)} :
       /\ maps' = [maps EXCEPT ![internalMap] = r[1]]
       /\ hresult' = [hresult EXCEPT ![t] = r[2]]
       /\ wrote' = IF key = t
                   THEN [wrote EXCEPT ![t] = IF name = "[]=" THEN args[2] ELSE Null]
                   ELSE wrote
       /\ hframe' = [u \in Threads |->
                      IF u = t THEN [NoTraversal EXCEPT !.op = name, !.args = args]
                      ELSE IF key # 0 THEN [hframe[u] EXCEPT !.stable[key] = Absent]
                      ELSE hframe[u]]
  /\ calls' = [calls EXCEPT ![t] = @ + 1]
  /\ UNCHANGED <<avars, ovars, internalMap, eq>>

HGet(t, A) == \E args \in A : HashCall(t, "[]", args)
HSet(t, A) == \E args \in A : HashCall(t, "[]=", args)
HDelete(t, A) == \E args \in A : HashCall(t, "delete", args)
HHasKey(t, A) == \E args \in A : HashCall(t, "has_key?", args)

\* ---------------------------------------------------- Concurrent::Hash.new
\* for key, value := range pairs { internalMap.Store(key, value) }
RECURSIVE StoreAll(_, _, _)
StoreAll(m, pairs, keys) ==
  IF keys = {} THEN m
  ELSE LET key == Min(keys)
       IN StoreAll(IF pairs[key] = Absent THEN m ELSE Store(m, key, pairs[key]),
                   pairs, keys \ {key})

\* A concurrent hash that keeps the map it was given.
InternalMapShared(pairsId) == pairsId
\* var internalMap sync.Map: a map of its own.
InternalMapOf(pairsId) == PairsMap + 1

\* initConcurrentHashObject(pairs), pairs being map pairsId or, for 0, a new
\* empty map: <<the maps afterwards, the sync.Map of the new object>>.
InitConcurrentHashObject(mps, pairsId) ==
  LET id == InternalMapOf(pairsId)
      pairs == IF pairsId = 0 THEN EmptyMap ELSE mps[pairsId]
      filled == StoreAll(EmptyMap, pairs, HKeys)
  IN <<[m \in MapIds |-> IF m = id THEN filled ELSE mps[m]], id>>

\* Concurrent::Hash.new that looks at its first argument only.
ConcurrentHashNewFirstOnly(mps, im, args) ==
  IF Len(args) = 0
  THEN <<InitConcurrentHashObject(mps, 0)[1], InitConcurrentHashObject(mps, 0)[2], CHash>>
  ELSE <<InitConcurrentHashObject(mps, PairsMap)[1],
         InitConcurrentHashObject(mps, PairsMap)[2], CHash>>

\* Concurrent::Hash.new: <<the maps, the sync.Map of the concurrent hash the
\* caller now holds, the object returned>>.
ConcurrentHashNew(mps, im, args) ==
  IF Len(args) > 1 THEN <<mps, im, ErrObj("ArgumentError")>>
  ELSE IF Len(args) = 0
  THEN <<InitConcurrentHashObject(mps, 0)[1], InitConcurrentHashObject(mps, 0)[2], CHash>>
  ELSE IF args[1].k # "hash" THEN <<mps, im, ErrObj("TypeError")>>
  ELSE <<InitConcurrentHashObject(mps, PairsMap)[1],
         InitConcurrentHashObject(mps, PairsMap)[2], CHash>>

\* No argument, the plain hash, an integer, two arguments.
NewArgs == {<<>>, <<PlainHash>>, <<IntObj(1)>>, <<PlainHash, IntObj(1)>>}

HNew(t) ==
  /\ hframe[t].pc # "range"
  /\ calls[t] < MaxHashCalls
  /\ \E args \in NewArgs :
     \E r \in {ConcurrentHashNew(maps, internalMap, args)} :
       /\ maps' = r[1]
       /\ internalMap' = r[2]
       /\ hresult' = [hresult EXCEPT ![t] = r[3]]
       /\ hframe' = [hframe EXCEPT ![t] = [NoTraversal EXCEPT !.op = "new", !.args = args]]
  /\ calls' = [calls EXCEPT ![t] = @ + 1]
  /\ UNCHANGED <<avars, ovars, wrote, eq>>

\* The plain hashes Concurrent::Hash.new is given: empty, one entry, all keys.
SourcePairs ==
  {EmptyMap, [EmptyMap EXCEPT ![1] = IntObj(1)], [key \in HKeys |-> IntObj(2)]}

\* A plain hash and no concurrent hash yet.
InitHashSeq ==
  /\ ArrayInit
  /\ \E pairs \in SourcePairs :
       maps = [m \in MapIds |-> IF m = PairsMap THEN pairs ELSE EmptyMap]
  /\ internalMap = 0
  /\ hframe = [t \in Threads |-> NoTraversal]
  /\ hresult = [t \in Threads |-> NoValue]
  /\ wrote = [t \in Threads |-> NoValue]
  /\ eq = NoEq
  /\ ObjIdle

\* One thread: constructions of both collections and hash calls with any
\* arguments.
NextHashSeq ==
  \/ HNew(1)
  \/ HGet(1, ArgLists)
  \/ HSet(1, ArgLists)
  \/ HDelete(1, ArgLists)
  \/ HHasKey(1, ArgLists)
  \/ New(1)

SpecHashSeq == InitHashSeq /\ [][NextHashSeq]_vars

\* --------------------------------------------------- Concurrent::Hash#each
\* The iterator returned false: Range stops after this entry.
RemainingNone(todo, key) == {}
\* The iterator returns true: Range goes on with the other entries.
Remaining(todo, key) == todo \ {key}

\* each: an error object for arguments or a missing block, else
\* internalMap.Range(iterator) begins over the entries the map holds.
HEachStart(t) ==
  /\ internalMap # 0
  /\ hframe[t].pc # "range"
  /\ calls[t] < MaxHashCalls
  /\ \E args \in {<<>>, <<IntObj(1)>>}, block \in BOOLEAN :
       IF Len(args) # 0 \/ ~block
       THEN /\ hframe' = [hframe EXCEPT ![t] =
                            [NoTraversal EXCEPT !.op = "each", !.args = args]]
            /\ hresult' = [hresult EXCEPT ![t] =
                             IF Len(args) # 0 THEN ErrObj("ArgumentError")
                             ELSE ErrObj("InternalError")]
       ELSE /\ hframe' = [hframe EXCEPT ![t] =
                            [NoTraversal EXCEPT
                               !.op = "each", !.pc = "range",
                               !.todo = {key \in HKeys : maps[internalMap][key] # Absent},
                               !.stable = maps[internalMap]]]
            /\ hresult' = [hresult EXCEPT ![t] = NoValue]
  /\ calls' = [calls EXCEPT ![t] = @ + 1]
  /\ UNCHANGED <<avars, ovars, maps, internalMap, wrote, eq>>

\* Range reaches an entry: the block is yielded the key and the value the
\* entry holds now; an entry deleted meanwhile is passed over.
HEachVisit(t) ==
  /\ hframe[t].pc = "range"
  /\ \E key \in hframe[t].todo :
       hframe' = [hframe EXCEPT ![t] =
                    [@ EXCEPT !.todo = Remaining(@, key),
                              !.visits[key] =
                                 IF maps[internalMap][key] = Absent THEN @
                                 ELSE Append(@, maps[internalMap][key])]]
  /\ UNCHANGED <<avars, ovars, calls, maps, internalMap, hresult, wrote, eq>>

\* Range may also reach an entry stored after it began, if it has not
\* yielded that key.
HEachLate(t) ==
  /\ hframe[t].pc = "range"
  /\ \E key \in HKeys \ hframe[t].todo :
       /\ hframe[t].visits[key] = <<>>
       /\ maps[internalMap][key] # Absent
       /\ hframe' = [hframe EXCEPT ![t].visits[key] = <<maps[internalMap][key]>>]
  /\ UNCHANGED <<avars, ovars, calls, maps, internalMap, hresult, wrote, eq>>

\* Range is through: each returns the hash.
HEachEnd(t) ==
  /\ hframe[t].pc = "range"
  /\ hframe[t].todo = {}
  /\ hframe' = [hframe EXCEPT ![t].pc = "done"]
  /\ hresult' = [hresult EXCEPT ![t] = CHash]
  /\ UNCHANGED <<avars, ovars, calls, maps, internalMap, wrote, eq>>

MaxWrites == 2
AnyKey == {<<StrObj(key)>> : key \in HKeys}
AnyPair == {<<StrObj(key), v>> : key \in HKeys, v \in HVals}

\* A concurrent hash built from one of the plain hashes, shared by the threads.
InitHashEach ==
  /\ ArrayInit
  /\ \E pairs \in SourcePairs :
       maps = [m \in MapIds |-> pairs]
  /\ internalMap = PairsMap + 1
  /\ hframe = [t \in Threads |-> NoTraversal]
  /\ hresult = [t \in Threads |-> NoValue]
  /\ wrote = [t \in Threads |-> NoValue]
  /\ eq = NoEq
  /\ ObjIdle

\* Thread 1 traverses the hash while thread 2 stores and deletes any key,
\* MaxWrites calls each.
NextHashEach ==
  \/ calls[1] < MaxWrites /\ HEachStart(1)
  \/ HEachVisit(1)
  \/ HEachLate(1)
  \/ HEachEnd(1)
  \/ calls[2] < MaxWrites /\ HSet(2, AnyPair)
  \/ calls[2] < MaxWrites /\ HDelete(2, AnyKey)

SpecHashEach == InitHashEach /\ [][NextHashEach]_vars

\* An empty concurrent hash, Concurrent::Hash.new(), shared by the threads.
InitHashDisjoint ==
  /\ ArrayInit
  /\ maps = [m \in MapIds |-> EmptyMap]
  /\ internalMap = PairsMap + 1
  /\ hframe = [t \in Threads |-> NoTraversal]
  /\ hresult = [t \in Threads |-> NoValue]
  /\ wrote = [t \in Threads |-> NoValue]
  /\ eq = NoEq
  /\ ObjIdle

\* Every thread gets, sets, deletes and tests its own key.
NextHashDisjoint ==
  \E t \in Threads :
    \/ HGet(t, OwnKey(t))
    \/ HSet(t, OwnPair(t))
    \/ HDelete(t, OwnKey(t))
    \/ HHasKey(t, OwnKey(t))

SpecHashDisjoint == InitHashDisjoint /\ [][NextHashDisjoint]_vars

\* ================================================================ equalTo
\* Objects as equalTo sees them: the Go type of the value behind the Object
\* interface, the BaseObj fields (id, class, InstanceVariables), an integer's
\* value, an array's Elements.
IvNames == {"@a", "@b"}
NoIvars == [name \in IvNames |-> 0]
\* The instance variable tables: a name maps to its value, 0 when unset.
IvarTables == {iv \in [IvNames -> {0, 1, 2}] : iv["@b"] # 2}
ObjIds == {1, 2}

IntegerObject(n) ==
  [gotype |-> "*IntegerObject", id |-> 0, class |-> "Integer", ivars |-> NoIvars,
   val |-> n, elems |-> <<>>]
RObject(id, class, iv) ==
  [gotype |-> "*RObject", id |-> id, class |-> class, ivars |-> iv, val |-> 0,
   elems |-> <<>>]
ArrayObject(id, els) ==
  [gotype |-> "*ArrayObject", id |-> id, class |-> "Array", ivars |-> NoIvars,
   val |-> 0, elems |-> els]
ConcurrentArrayObject(id, els) ==
  [gotype |-> "*ConcurrentArrayObject", id |-> id, class |-> "Array",
   ivars |-> NoIvars, val |-> 0, elems |-> els]

RObjects == {RObject(id, class, iv) : id \in ObjIds, class \in {"Foo", "Bar"},
                                     iv \in IvarTables}
\* What the arrays hold: integers and one object of a user class.
Elements == {IntegerObject(v) : v \in Vals} \cup {RObject(3, "Foo", NoIvars)}
ElementLists == UNION {[1 .. n -> Elements] : n \in 0 .. MaxLen}
EqObjects ==
  RObjects \cup {IntegerObject(v) : v \in Vals}
           \cup {ConcurrentArrayObject(id, els) : id \in ObjIds, els \in ElementLists}
           \cup {ArrayObject(4, els) : els \in {<<>>, <<IntegerObject(1)>>}}

\* The receiver of a promoted BaseObj method: the embedded *BaseObj.
BaseObjOf(o) == [o EXCEPT !.gotype = "*BaseObj"]

\* reflect.DeepEqual(x, y): values of distinct types are never deeply equal;
\* pointers of one type are, when what they point to is field for field.
DeepEqual(x, y) ==
  /\ x.gotype = y.gotype
  /\ x.id = y.id
  /\ x.class = y.class
  /\ x.ivars = y.ivars

\* An equalTo that compares the class names only.
BaseEqualToClassOnly(b, with) == b.class = with.class

\* BaseObj.equalTo
BaseEqualTo(b, with) ==
  LET className == b.class
      compareClassName == with.class
  IN className = compareClassName /\ DeepEqual(BaseObjOf(b), with)

\* IntegerObject.equalTo: another integer of the same value.
IntegerEqualTo(i, compared) ==
  compared.gotype = "*IntegerObject" /\ compared.val = i.val

\* equalTo of an array's element.
ElementEqualTo(e, compared) ==
  IF e.gotype = "*IntegerObject" THEN IntegerEqualTo(e, compared)
  ELSE BaseEqualTo(e, compared)

\* ArrayObject.equalTo over the Elements: same length, and every element
\* equalTo the element at its place.
ArrayEqualTo(els, comparedEls) ==
  /\ Len(els) = Len(comparedEls)
  /\ \A j \in 1 .. Len(els) : ElementEqualTo(els[j], comparedEls[j])

\* ConcurrentArrayObject.equalTo
ConcurrentArrayEqualTo(cao, compared) ==
  /\ compared.gotype = "*ConcurrentArrayObject"
  /\ ArrayEqualTo(cao.elems, compared.elems)

\* x.equalTo(y), dispatched on the type of x.
EqualTo(x, y) ==
  IF x.gotype = "*ConcurrentArrayObject" THEN ConcurrentArrayEqualTo(x, y)
  ELSE IF x.gotype = "*ArrayObject"
  THEN y.gotype = "*ArrayObject" /\ ArrayEqualTo(x.elems, y.elems)
  ELSE IF x.gotype = "*IntegerObject" THEN IntegerEqualTo(x, y)
  ELSE BaseEqualTo(x, y)

\* Any two objects; objects of one identity are one object.
InitEq ==
  /\ ArrayInit
  /\ maps = [m \in MapIds |-> EmptyMap]
  /\ internalMap = 0
  /\ hframe = [t \in Threads |-> NoTraversal]
  /\ hresult = [t \in Threads |-> NoValue]
  /\ wrote = [t \in Threads |-> NoValue]
  /\ ObjIdle
  /\ \E a \in EqObjects, b \in EqObjects :
       /\ (a.id = b.id /\ a.id # 0) => a = b
       /\ eq = [a |-> a, b |-> b, res |-> "none"]

\* a.equalTo(b) is called.
Compare ==
  /\ eq.res = "none"
  /\ eq' = [eq EXCEPT !.res = IF EqualTo(eq.a, eq.b) THEN "true" ELSE "false"]
  /\ UNCHANGED <<avars, ovars, calls, maps, internalMap, hframe, hresult, wrote>>

NextEq == Compare

SpecEq == InitEq /\ [][NextEq]_vars

\* ================================================================ claims
\* The classification the specification gives.
ClaimReadNames ==
  {"[]", "length", "each", "map", "select", "+", "first", "last", "join",
   "flatten", "count", "reverse"}
ClaimWriteNames ==
  {"[]=", "push", "pop", "shift", "unshift", "delete_at", "clear", "concat"}

FrameAt(p) == stack[p[1]][p[2]]
\* The frame is inside arrayMethodObject.Fn, the delegated operation.
InDelegate(f) == f.pc \in {"run", "commit", "iter", "yield"}

\* C1: while a thread executes the delegated operation of a write-classified
\* name on a sequence, no other thread executes any delegated operation on
\* that sequence; delegated operations overlap only when both are
\* read-classified.
C1_MutualExclusion ==
  \A p, q \in Frames(stack) :
    (/\ p[1] # q[1]
     /\ FrameAt(p).arr = FrameAt(q).arr
     /\ InDelegate(FrameAt(p))
     /\ InDelegate(FrameAt(q)))
    => (/\ FrameAt(p).op \notin ClaimWriteNames
        /\ FrameAt(q).op \notin ClaimWriteNames
        /\ FrameAt(p).op \in ClaimReadNames
        /\ FrameAt(q).op \in ClaimReadNames)

\* A writer is in its delegated operation while another thread's call on the
\* same sequence waits at the lock.
C1_Witness ==
  \E p, q \in Frames(stack) :
    /\ p[1] # q[1]
    /\ FrameAt(p).arr = FrameAt(q).arr
    /\ FrameAt(p).op = "push"
    /\ FrameAt(p).pc = "commit"
    /\ FrameAt(q).pc = "acquire"

\* Two readers overlap in their delegated operations.
C1_ReadersOverlap ==
  \E p, q \in Frames(stack) :
    /\ p[1] # q[1]
    /\ FrameAt(p).arr = FrameAt(q).arr
    /\ InDelegate(FrameAt(p))
    /\ InDelegate(FrameAt(q))

\* C2: a forwarded operation releases the lock it acquired on every exit
\* path: every read lock counted on a sequence, and every exclusive lock held
\* or announced, belongs to a call that is still in progress.
C2_LockReleasedOnEveryExit ==
  \A a \in Arrays :
    /\ readers[a] =
         Cardinality({p \in Frames(stack) :
                        FrameAt(p).arr = a /\ FrameAt(p).held = "shared"})
    /\ writer[a] # "free" =>
         \E p \in Frames(stack) :
           /\ FrameAt(p).arr = a
           /\ FrameAt(p).held = "exclusive" \/ FrameAt(p).pc = "wwait"

\* C3: a block of a forwarded operation that calls a write-classified
\* operation on the same sequence from the same thread deadlocks: the inner
\* call stays before its lock and the outer call stays in its block.
ReentrantWrite(t) ==
  /\ Len(stack[t]) = 2
  /\ stack[t][2].arr = stack[t][1].arr
  /\ stack[t][2].op \in ClaimWriteNames
  /\ stack[t][2].pc \in {"acquire", "wwait"}
  /\ stack[t][2].held = "none"
  /\ stack[t][1].pc = "yield"

C3_ReentrantWriteDeadlocks ==
  [][\A t \in Threads :
       (/\ Len(stack[t]) = 2
        /\ stack[t][2].arr = stack[t][1].arr
        /\ stack[t][2].op \in ClaimWriteNames)
       => (ReentrantWrite(t) /\ ReentrantWrite(t)' /\ stack'[t][1] = stack[t][1])]_vars

\* The inner push has announced itself and waits for the read lock its own
\* thread holds.
C3_Witness ==
  \E t \in Threads :
    /\ ReentrantWrite(t)
    /\ stack[t][1].op = "each"
    /\ stack[t][2].op = "push"
    /\ stack[t][2].pc = "wwait"

\* C4: the concurrent sequence a forwarded operation returns has its own
\* element storage: a write through one sequence leaves the contents of
\* every other sequence as they were.
C4_ResultIndependent ==
  [][\A t \in Threads :
       (stack[t] # <<>> /\ Top(t).pc = "commit" /\ stack'[t] # stack[t])
       => \A a \in (LiveArrays(stack, result) \cap LiveArrays(stack', result'))
                   \ {Top(t).arr} :
            Contents(store', elems'[a]) = Contents(store, elems[a])]_vars

\* C5: the concurrent sequence built from a plain sequence holds a copy: no
\* write on a concurrent sequence changes the plain sequence's elements, and
\* no change of the plain sequence changes a concurrent sequence's contents.
C5_ConstructionCopies ==
  [][/\ \A t \in Threads :
          (stack[t] # <<>> /\ Top(t).pc = "commit" /\ stack'[t] # stack[t])
          => Contents(store', src') = Contents(store, src)
     /\ (stack' = stack /\ result' = result /\ calls' # calls)
          => \A a \in LiveArrays(stack, result) :
               Contents(store', elems'[a]) = Contents(store, elems[a])]_vars

\* C6: with the root holding n elements (n = 3 in the claim's example), a
\* length call racing one push(4) returns n or n + 1, and once every call has
\* returned the root holds exactly the n elements and the pushed one.
InitialLen == Cardinality({j \in 1 .. elems[Root].len : store[elems[Root].st][j] # 4})
AllReturned == \A t \in Threads : calls[t] = 1 /\ stack[t] = <<>>

C6_LengthDuringPush ==
  /\ \A t \in Threads \ {1} :
       (calls[t] = 1 /\ stack[t] = <<>>)
       => result[t] \in {IntObj(InitialLen), IntObj(InitialLen + 1)}
  /\ AllReturned =>
       Contents(store, elems[Root]) = [j \in 1 .. InitialLen + 1 |->
                                         IF j <= InitialLen THEN j ELSE 4]

\* Both calls have returned on [1, 2, 3]: length answered 3, four elements.
C6_Witness ==
  /\ AllReturned
  /\ result[2] = IntObj(3)
  /\ Contents(store, elems[Root]) = <<1, 2, 3, 4>>

\* The same, length having answered 4.
C6_WitnessAfter ==
  /\ AllReturned
  /\ result[2] = IntObj(4)
  /\ Contents(store, elems[Root]) = <<1, 2, 3, 4>>

\* C7: absent a block that calls back into the sequence its operation runs
\* on, and with blocks that return, every forwarded operation that was
\* called eventually returns under fair scheduling.
NoReentry ==
  \A p \in Frames(stack) :
    ~(FrameAt(p).cb.kind = "call" /\ FrameAt(p).cb.arr = FrameAt(p).arr)

\* No call is given a block that fails instead of returning.
BlocksReturn == \A p \in Frames(stack) : FrameAt(p).cb.kind # "fail"

C7_EveryCallReturns ==
  ([](NoReentry /\ BlocksReturn))
    => \A t \in Threads : (stack[t] # <<>>) ~> (stack[t] = <<>>)

\* C8: a plain array returned by the delegated operation reaches the caller
\* as a newly created concurrent array, not the receiver, with the same
\* elements in the same order; any other object reaches the caller unchanged.
C8_WrapsPlainArrays ==
  [][\A t \in Threads :
       (stack[t] # <<>> /\ Top(t).pc = "wrap" /\ stack'[t] # stack[t])
       => \E got \in {IF Len(stack[t]) = 1 THEN result'[t] ELSE stack'[t][1].ret} :
            IF Top(t).ret.k = "array"
            THEN /\ got.k = "carray"
                 /\ got.n # Top(t).arr
                 /\ got.n \notin LiveArrays(stack, result)
                 /\ readers'[got.n] = 0
                 /\ writer'[got.n] = "free"
                 /\ Contents(store', elems'[got.n]) =
                      IF Top(t).ret.n = 1 THEN Contents(store, elems[Top(t).arr])
                      ELSE Top(t).ret.s
            ELSE got = Top(t).ret]_vars

\* One thread received a concurrent array with elements, another an integer.
C8_Witness ==
  \E t, u \in Threads :
    /\ result[t].k = "carray"
    /\ elems[result[t].n].len > 0
    /\ result[t].n # Root
    /\ result[u].k = "int"

\* C9: while a block-accepting operation is at its block, the operation
\* holds the lock it acquired and has not released it, and the internal
\* array's method was handed the caller's argument and block unchanged.
C9_BlockRunsUnderLock ==
  \A p \in Frames(stack) :
    /\ FrameAt(p).pc \in {"iter", "yield"} =>
         /\ FrameAt(p).held = "shared"
         /\ readers[FrameAt(p).arr] >= 1
         /\ writer[FrameAt(p).arr] # "held"
    /\ FrameAt(p).pc \in {"commit", "iter", "yield", "unlock", "wrap"} =>
         /\ FrameAt(p).dv = FrameAt(p).v
         /\ FrameAt(p).dcb = FrameAt(p).cb

\* A select is at its block for the second element of the range.
C9_Witness ==
  \E p \in Frames(stack) :
    /\ FrameAt(p).op = "select"
    /\ FrameAt(p).pc = "iter"
    /\ FrameAt(p).i = 2
    /\ FrameAt(p).i <= FrameAt(p).loc.len
    /\ FrameAt(p).dcb.kind = "ret"

\* C10: the table gives every forwarded name one lock kind, the kind of the
\* specification's classification; a call holds the lock of its name's kind,
\* and a call that writes the internal array in place holds the exclusive one.
C10_TableMatchesClassification ==
  /\ ClaimReadNames \cup ClaimWriteNames \subseteq DOMAIN ForwardingTable
  /\ \A n \in DOMAIN ForwardingTable : ForwardingTable[n] \in BOOLEAN
  /\ \A n \in ClaimReadNames : ~RequireWriteLock(n)
  /\ \A n \in ClaimWriteNames : RequireWriteLock(n)
  /\ \A p \in Frames(stack) :
       /\ FrameAt(p).held # "none" =>
            FrameAt(p).held = IF FrameAt(p).op \in ClaimWriteNames
                              THEN "exclusive" ELSE "shared"
       /\ FrameAt(p).pc = "commit" => FrameAt(p).held = "exclusive"

\* An index-assign is about to write in place, holding the exclusive lock,
\* while a select waits for the shared one.
C10_Witness ==
  \E p, q \in Frames(stack) :
    /\ FrameAt(p).op = "[]="
    /\ FrameAt(p).pc = "commit"
    /\ FrameAt(p).held = "exclusive"
    /\ FrameAt(q).op = "select"
    /\ FrameAt(q).pc = "acquire"
\* ------------------------------------------------------------------ C11
ErrorKinds == {"ArgumentError", "TypeError", "InternalError", "panic"}
\* What the thread's own key holds by the thread's own calls.
OwnValue(t) == IF wrote[t] = NoValue THEN Null ELSE wrote[t]

\* C11: threads working on pairwise disjoint keys of one concurrent hash: no
\* call fails, a Get returns what the thread's own last Set stored (null
\* after its own Delete or before any Set), always a whole stored value, and
\* has_key? answers accordingly.
C11_DisjointKeysOwnWrites ==
  \A t \in Threads :
    hframe[t].op # "" =>
      /\ hresult[t].k \notin ErrorKinds
      /\ hframe[t].op = "[]" =>
           /\ hresult[t] = OwnValue(t)
           /\ hresult[t] \in HVals \cup {Null}
      /\ hframe[t].op = "has_key?" => hresult[t] = BoolObj(OwnValue(t) # Null)

\* Thread 2 read back its own 2 after thread 1 stored 1 under its key.
C11_Witness ==
  /\ hframe[2].op = "[]"
  /\ hresult[2] = IntObj(2)
  /\ wrote[1] = IntObj(1)
  /\ maps[internalMap][1] = IntObj(1)
  /\ calls[1] > 1
\* ------------------------------------------------------------------ C13
\* C13: one traversal yields no key twice; when it is through it has
\* yielded, once and with its value, every entry that was there when it
\* began and that no call wrote or deleted meanwhile, and each returns the
\* hash itself; what it yielded is always a stored value.
C13_EachVisitsOnce ==
  \A t \in Threads :
    hframe[t].pc \in {"range", "done"} =>
      /\ \A key \in HKeys :
           /\ Len(hframe[t].visits[key]) <= 1
           /\ \A j \in 1 .. Len(hframe[t].visits[key]) :
                hframe[t].visits[key][j] \in HVals
      /\ hframe[t].pc = "done" =>
           /\ hresult[t] = CHash
           /\ \A key \in HKeys :
                hframe[t].stable[key] # Absent =>
                  hframe[t].visits[key] = <<hframe[t].stable[key]>>

\* A finished traversal yielded key 1, untouched throughout, and missed
\* key 2, stored by another thread meanwhile and still there.
C13_Witness ==
  \E t \in Threads :
    /\ hframe[t].pc = "done"
    /\ hframe[t].stable[1] = IntObj(1)
    /\ hframe[t].visits[1] = <<IntObj(1)>>
    /\ hframe[t].visits[2] = <<>>
    /\ maps[internalMap][2] # Absent

\* ------------------------------------------------------------ C12 .. C17
\* The hash call thread 1 made in this step, if it made one.
Called(name) == calls'[1] # calls[1] /\ hframe'[1].op = name
Arity(name) == IF name = "[]=" THEN 2 ELSE 1
WellFormed(name, args) == Len(args) = Arity(name) /\ args[1].k = "string"
\* What Get and HasKey answer for a key in a map.
Lookup(m, key) == IF m[key] = Absent THEN Null ELSE m[key]

\* C12: on one thread Set(k, v) returns v and leaves k mapped to v; Get(k)
\* returns the value k is mapped to, the null object when k has no entry
\* (never set, or deleted); HasKey(k) tells whether k has an entry; after
\* Delete(k) the key has none.
C12_RoundTrip ==
  [][\A name \in HashMethods :
       (Called(name) /\ WellFormed(name, hframe'[1].args)) =>
         \E key \in {hframe'[1].args[1].n} :
           /\ name = "[]=" =>
                /\ hresult'[1] = hframe'[1].args[2]
                /\ Lookup(maps'[internalMap], key) = hframe'[1].args[2]
           /\ name = "[]" => hresult'[1] = Lookup(maps[internalMap], key)
           /\ name = "has_key?" =>
                hresult'[1] = BoolObj(Lookup(maps[internalMap], key) # Null)
           /\ name = "delete" => Lookup(maps'[internalMap], key) = Null]_vars

\* Get returned the 2 the thread stored itself, which the source never held.
C12_Witness ==
  /\ hframe[1].op = "[]"
  /\ hframe[1].args = <<StrObj(1)>>
  /\ hresult[1] = IntObj(2)
  /\ wrote[1] = IntObj(2)
  /\ maps[PairsMap][1] # IntObj(2)

\* C14: Delete(k) with a string key returns the null object, leaves k
\* without entry whether it had one or not, and leaves every other key's
\* mapping as it was.
C14_DeleteOnlyItsKey ==
  [][(Called("delete") /\ WellFormed("delete", hframe'[1].args)) =>
       /\ hresult'[1] = Null
       /\ maps'[internalMap][hframe'[1].args[1].n] = Absent
       /\ \A key \in HKeys \ {hframe'[1].args[1].n} :
            maps'[internalMap][key] = maps[internalMap][key]]_vars

\* Key 1 was deleted from a hash that goes on holding key 2.
C14_Witness ==
  /\ internalMap # 0
  /\ hframe[1].op = "delete"
  /\ hframe[1].args = <<StrObj(1)>>
  /\ hresult[1] = Null
  /\ wrote[1] = Null
  /\ maps[PairsMap][1] # Absent
  /\ maps[internalMap][2] # Absent

\* C15: Get, Set, Delete and HasKey return an ArgumentError object when the
\* number of arguments is wrong and a TypeError object when the key is no
\* string, and leave every map as it was.
C15_BadArgumentsRejected ==
  [][\A name \in HashMethods :
       Called(name) =>
         /\ Len(hframe'[1].args) # Arity(name) =>
              hresult'[1] = ErrObj("ArgumentError") /\ maps' = maps
         /\ (Len(hframe'[1].args) = Arity(name) /\ hframe'[1].args[1].k # "string") =>
              hresult'[1] = ErrObj("TypeError") /\ maps' = maps]_vars

\* A Set with an integer key was refused on a hash holding entries.
C15_Witness ==
  /\ hframe[1].op = "[]="
  /\ hframe[1].args = <<IntObj(1), IntObj(2)>>
  /\ hresult[1] = ErrObj("TypeError")
  /\ internalMap # 0
  /\ maps[internalMap][1] = IntObj(1)

\* C16: the concurrent hash built from a plain hash holds the plain hash's
\* entries and no others, in a map of its own: no call on the concurrent
\* hash changes the plain hash.
C16_HashConstructionCopies ==
  [][/\ (Called("new") /\ hframe'[1].args = <<PlainHash>>) =>
          /\ hresult'[1] = CHash
          /\ internalMap' # PairsMap
          /\ \A key \in HKeys :
               Lookup(maps'[internalMap'], key) = Lookup(maps[PairsMap], key)
     /\ maps'[PairsMap] = maps[PairsMap]]_vars

\* The concurrent hash built from the plain hash has been written and
\* differs from it.
C16_Witness ==
  /\ internalMap # 0
  /\ hframe[1].op = "[]="
  /\ hresult[1] = IntObj(1)
  /\ maps[PairsMap][1] = IntObj(2)
  /\ maps[internalMap][1] = IntObj(1)
  /\ maps[internalMap][2] = IntObj(2)

\* C17: both constructors return an ArgumentError object for more than one
\* argument, a TypeError object for one argument that is no plain hash
\* (no plain array), and an empty collection for none.
C17_ConstructorArguments ==
  [][/\ Called("new") =>
          /\ Len(hframe'[1].args) > 1 => hresult'[1] = ErrObj("ArgumentError")
          /\ (Len(hframe'[1].args) = 1 /\ hframe'[1].args[1].k # "hash") =>
               hresult'[1] = ErrObj("TypeError")
          /\ Len(hframe'[1].args) = 0 =>
               /\ hresult'[1] = CHash
               /\ maps'[internalMap'] = EmptyMap
          /\ hresult'[1].k \in ErrorKinds => maps' = maps /\ internalMap' = internalMap
     /\ NewWith(1, "two") => result'[1] = ErrObj("ArgumentError")
     /\ NewWith(1, "other") => result'[1] = ErrObj("TypeError")
     /\ NewWith(1, "none") =>
          /\ result'[1].k = "carray"
          /\ elems'[result'[1].n].len = 0]_vars

\* The array constructor refused an integer, the hash constructor two
\* arguments.
C17_Witness ==
  /\ result[1] = ErrObj("TypeError")
  /\ hframe[1].op = "new"
  /\ Len(hframe[1].args) = 2
  /\ hresult[1] = ErrObj("ArgumentError")
\* ------------------------------------------------------------ C18 .. C20
\* C18: a concurrent array is equalTo an object exactly when the object is a
\* concurrent array with as many elements and the same element at every
\* place.
C18_ConcurrentArrayEquality ==
  (eq.res # "none" /\ eq.a.gotype = "*ConcurrentArrayObject") =>
    ((eq.res = "true") <=>
       /\ eq.b.gotype = "*ConcurrentArrayObject"
       /\ Len(eq.a.elems) = Len(eq.b.elems)
       /\ \A j \in 1 .. Len(eq.a.elems) : eq.a.elems[j] = eq.b.elems[j])

\* C19: two objects of user classes with the same class and instance
\* variables equal name for name are equalTo each other, be they one object
\* or two.
C19_DefaultEqualityEqualCase ==
  (/\ eq.res # "none"
   /\ eq.a.gotype = "*RObject"
   /\ eq.b.gotype = "*RObject"
   /\ eq.a.class = eq.b.class
   /\ eq.a.ivars = eq.b.ivars) => eq.res = "true"

\* C20: the base equalTo answers false for an object of a class of another
\* name, and for an object of the same class that differs in an instance
\* variable, set in one only or of another value.
C20_DefaultEqualityUnequalCase ==
  (eq.res # "none" /\ eq.a.gotype = "*RObject") =>
    /\ eq.a.class # eq.b.class => eq.res = "false"
    /\ (eq.a.class = eq.b.class /\ eq.a.ivars # eq.b.ivars) => eq.res = "false"

\* Two objects of class Foo, @a set in one only, were found unequal.
C20_Witness ==
  /\ eq.res = "false"
  /\ eq.a.gotype = "*RObject"
  /\ eq.b.gotype = "*RObject"
  /\ eq.a.class = "Foo"
  /\ eq.b.class = "Foo"
  /\ eq.a.ivars["@a"] = 0
  /\ eq.b.ivars["@a"] = 1
  /\ eq.a.ivars["@b"] = eq.b.ivars["@b"]

\* =========================================================== base objects
\* The variables of the collections, which no object operation touches.
collvars == <<avars, calls, hvars>>

\* The address of the BaseObj allocated in slot s: the slots are ObjSize
\* bytes apart (an int and three pointers).
HeapBase == 4096
ObjSize == 32
Address(s) == HeapBase + ObjSize * s

RECURSIVE HexDigits(_)
HexDigits(n) == IF n < 16 THEN <<n>> ELSE Append(HexDigits(n \div 16), n % 16)
\* fmt.Sprintf("%p", obj): "0x" and the hexadecimal digits of the address.
SprintfP(addr) == [prefix |-> "0x", digits |-> HexDigits(addr)]

RECURSIVE DigitsValue(_, _)
DigitsValue(ds, base) ==
  IF ds = <<>> THEN 0
  ELSE DigitsValue(SubSeq(ds, 1, Len(ds) - 1), base) * base + ds[Len(ds)]
\* strconv.ParseInt(s, 0, 64): the base is taken from the prefix.
ParseInt(str) ==
  LET base == IF str.prefix = "0x" THEN 16 ELSE 10
  IN  IF str.digits = <<>> \/ \E j \in DOMAIN str.digits : str.digits[j] >= base
        THEN [val |-> 0, err |-> "syntax"]
        ELSE [val |-> DigitsValue(str.digits, base), err |-> "nil"]

\* An object whose id field is never assigned.
NewBaseObjectIdUnset(s) == [val |-> 0, err |-> "nil"]
\* id, e := strconv.ParseInt(fmt.Sprintf("%p", obj), 0, 64)
NewBaseObjectId(s) == ParseInt(SprintfP(Address(s)))

\* obj := &BaseObj{class: c, InstanceVariables: newEnvironment()}: the
\* allocator hands out memory no other object occupies.
NewBaseObjectAlloc(t, c) ==
  /\ newpc[t] = 0
  /\ \E s \in Slots :
       /\ heap[s].state = "free"
       /\ heap' = [heap EXCEPT ![s] = [FreeSlot EXCEPT !.class = c, !.state = "new"]]
       /\ newpc' = [newpc EXCEPT ![t] = s]
  /\ UNCHANGED <<classes, ores, plug, collvars>>

\* The rest of NewBaseObject: the id is computed and the object returned.
NewBaseObjectReturn(t) ==
  /\ newpc[t] # 0
  /\ \E id \in {NewBaseObjectId(newpc[t])} :
       IF id.err # "nil"
         THEN /\ heap' = [heap EXCEPT ![newpc[t]] = FreeSlot]
              /\ ores' = [NoOp EXCEPT !.op = "NewBaseObject", !.flag = "panic"]
         ELSE /\ heap' = [heap EXCEPT ![newpc[t]].id = id.val,
                                      ![newpc[t]].state = "live"]
              /\ ores' = [NoOp EXCEPT !.op = "NewBaseObject", !.obj = newpc[t],
                                      !.flag = "returned"]
  /\ newpc' = [newpc EXCEPT ![t] = 0]
  /\ UNCHANGED <<classes, plug, collvars>>

Live(s) == heap[s].state = "live"
Panic == [NoOp EXCEPT !.flag = "panic"]

\* b.ID()
CallID(s) ==
  /\ Live(s)
  /\ ores' = [NoOp EXCEPT !.op = "ID", !.obj = s, !.val = IntObj(heap[s].id),
                          !.flag = "returned"]
  /\ UNCHANGED <<heap, classes, newpc, plug, collvars>>

\* b.Class(): panics if the class is nil.
CallClass(s) ==
  /\ Live(s)
  /\ ores' = IF heap[s].class = 0
               THEN [Panic EXCEPT !.op = "Class", !.obj = s]
               ELSE [NoOp EXCEPT !.op = "Class", !.obj = s,
                                 !.val = IntObj(heap[s].class), !.flag = "returned"]
  /\ UNCHANGED <<heap, classes, newpc, plug, collvars>>

\* b.SingletonClass()
CallSingletonClass(s) ==
  /\ Live(s)
  /\ ores' = [NoOp EXCEPT !.op = "SingletonClass", !.obj = s,
                          !.val = IntObj(heap[s].singletonClass), !.flag = "returned"]
  /\ UNCHANGED <<heap, classes, newpc, plug, collvars>>

\* A setter that keeps a singleton class the object already has.
SetSingletonClassOnce(s, c) ==
  /\ Live(s)
  /\ heap' = [heap EXCEPT ![s].singletonClass =
                IF heap[s].singletonClass = 0 THEN c ELSE heap[s].singletonClass]
  /\ ores' = [NoOp EXCEPT !.op = "SetSingletonClass", !.obj = s,
                          !.val = IntObj(c), !.flag = "returned"]
  /\ UNCHANGED <<classes, newpc, plug, collvars>>

\* b.SetSingletonClass(c)
SetSingletonClass(s, c) ==
  /\ Live(s)
  /\ heap' = [heap EXCEPT ![s].singletonClass = c]
  /\ ores' = [NoOp EXCEPT !.op = "SetSingletonClass", !.obj = s,
                          !.val = IntObj(c), !.flag = "returned"]
  /\ UNCHANGED <<classes, newpc, plug, collvars>>

\* A getter that hands out whatever the environment answered, found or not.
InstanceVariableGetUnchecked(s, name) ==
  /\ Live(s)
  /\ ores' = [NoOp EXCEPT !.op = "InstanceVariableGet", !.obj = s, !.arg = name,
                          !.val = heap[s].InstanceVariables[name], !.flag = "true"]
  /\ UNCHANGED <<heap, classes, newpc, plug, collvars>>

\* b.InstanceVariableGet(name)
InstanceVariableGet(s, name) ==
  /\ Live(s)
  /\ \E v \in {heap[s].InstanceVariables[name]} :
       ores' = [NoOp EXCEPT !.op = "InstanceVariableGet", !.obj = s, !.arg = name,
                            !.val = IF v = Absent THEN Null ELSE v,
                            !.flag = IF v = Absent THEN "false" ELSE "true"]
  /\ UNCHANGED <<heap, classes, newpc, plug, collvars>>

\* b.InstanceVariableSet(name, value)
InstanceVariableSet(s, name, value) ==
  /\ Live(s)
  /\ heap' = [heap EXCEPT ![s].InstanceVariables[name] = value]
  /\ ores' = [NoOp EXCEPT !.op = "InstanceVariableSet", !.obj = s, !.arg = name,
                          !.val = value, !.flag = "returned"]
  /\ UNCHANGED <<classes, newpc, plug, collvars>>

\* b.setInstanceVariables(e)
SetInstanceVariables(s, e) ==
  /\ Live(s)
  /\ heap' = [heap EXCEPT ![s].InstanceVariables = e]
  /\ ores' = [NoOp EXCEPT !.op = "setInstanceVariables", !.obj = s,
                          !.flag = "returned"]
  /\ UNCHANGED <<classes, newpc, plug, collvars>>

\* The last reference to the object goes away.
Drop(s) ==
  /\ Live(s)
  /\ heap' = [heap EXCEPT ![s].state = "dead"]
  /\ UNCHANGED <<classes, newpc, ores, plug, collvars>>

\* The garbage collector frees an unreachable object; its memory can be
\* handed out again.
Collect(s) ==
  /\ heap[s].state = "dead"
  /\ heap' = [heap EXCEPT ![s] = FreeSlot]
  /\ UNCHANGED <<classes, newpc, ores, plug, collvars>>

\* ------------------------------------------------------- method resolution
PanicMethod == [kind |-> "panic", owner |-> 0, name |-> ""]

\* c.Methods.get(name): the class's own slot.
MethodsGet(cls, c, name) == cls[c].Methods[name]

\* c.lookupMethod(name): the class's own table, then its ancestors'.
RECURSIVE lookupMethod(_, _, _)
lookupMethod(cls, c, name) ==
  IF c = 0 THEN NoMethod
  ELSE IF MethodsGet(cls, c, name) # NoMethod THEN MethodsGet(cls, c, name)
  ELSE lookupMethod(cls, cls[c].superClass, name)

\* A lookup that asks the class first and the singleton class last.
findMethodClassFirst(cls, b, methodName) ==
  IF b.class = 0 THEN PanicMethod
  ELSE IF lookupMethod(cls, b.class, methodName) # NoMethod
    THEN lookupMethod(cls, b.class, methodName)
  ELSE IF b.singletonClass # 0
    THEN lookupMethod(cls, b.singletonClass, methodName)
  ELSE NoMethod

\* b.findMethod(methodName)
findMethod(cls, b, methodName) ==
  LET method == IF b.singletonClass # 0
                  THEN lookupMethod(cls, b.singletonClass, methodName)
                  ELSE NoMethod
  IN  IF method # NoMethod THEN method
      ELSE IF b.class = 0 THEN PanicMethod
      ELSE lookupMethod(cls, b.class, methodName)

\* A search that always goes on to the ancestors.
findMethodMissingAlways(cls, b, searchAncestor) ==
  findMethod(cls, b, "method_missing")

\* b.findMethodMissing(searchAncestor)
findMethodMissing(cls, b, searchAncestor) ==
  LET method == IF b.singletonClass # 0
                  THEN MethodsGet(cls, b.singletonClass, "method_missing")
                  ELSE NoMethod
  IN  IF method # NoMethod THEN method
      ELSE IF b.class = 0 THEN PanicMethod
      ELSE IF MethodsGet(cls, b.class, "method_missing") # NoMethod
        THEN MethodsGet(cls, b.class, "method_missing")
      ELSE IF searchAncestor THEN findMethod(cls, b, "method_missing")
      ELSE NoMethod

CallFindMethod(s, name) ==
  /\ Live(s)
  /\ \E m \in {findMethod(classes, heap[s], name)} :
       ores' = [NoOp EXCEPT !.op = "findMethod", !.obj = s, !.arg = name, !.meth = m,
                            !.flag = IF m = PanicMethod THEN "panic" ELSE "returned"]
  /\ UNCHANGED <<heap, classes, newpc, plug, collvars>>

CallFindMethodMissing(s, searchAncestor) ==
  /\ Live(s)
  /\ \E m \in {findMethodMissing(classes, heap[s], searchAncestor)} :
       ores' = [NoOp EXCEPT !.op = "findMethodMissing", !.obj = s,
                            !.arg = IF searchAncestor THEN "true" ELSE "false",
                            !.meth = m,
                            !.flag = IF m = PanicMethod THEN "panic" ELSE "returned"]
  /\ UNCHANGED <<heap, classes, newpc, plug, collvars>>

\* ----------------------------------------- objects constructed by threads
\* The threads construct objects of class Foo, use them and let them go.
NextHeap ==
  \/ \E t \in Threads : NewBaseObjectAlloc(t, FooClass)
  \/ \E t \in Threads : NewBaseObjectReturn(t)
  \/ \E s \in Slots :
       \/ CallID(s)
       \/ SetSingletonClass(s, SingletonOfFoo)
       \/ InstanceVariableSet(s, "@a", IntObj(1))
       \/ SetInstanceVariables(s, NewEnvironment)
       \/ CallFindMethod(s, "x")
       \/ Drop(s)
       \/ Collect(s)

SpecHeap == Init /\ [][NextHeap]_vars

\* C21: two objects NewBaseObject returned that are both reachable have
\* different ids, whichever threads constructed them and however the
\* constructions interleave, and no step changes the id of an object that
\* stays reachable.
C21_Identity ==
  /\ [](\A s1, s2 \in Slots :
          (Live(s1) /\ Live(s2) /\ s1 # s2) => heap[s1].id # heap[s2].id)
  /\ [][\A s \in Slots :
          (Live(s) /\ heap'[s].state = "live") => heap'[s].id = heap[s].id]_vars

\* Two reachable objects, one of them given a singleton class and an
\* instance variable, while a thread constructs a third.
C21_Witness ==
  \E s1, s2 \in Slots :
    /\ s1 # s2 /\ Live(s1) /\ Live(s2)
    /\ heap[s1].singletonClass # 0
    /\ heap[s1].InstanceVariables["@a"] # Absent
    /\ \E t \in Threads : newpc[t] # 0

\* ------------------------------------------------- one object, its classes
\* ro.ToString(): "#<" + class name + ":" + id + " >"
RObjectToString(cls, b) == [text |-> "#<:>", cls |-> cls[b.class].Name, id |-> b.id]
\* The ToString of what a to_json method returns: nil or an integer.
ValueToString(v) ==
  IF v = Null THEN [text |-> "", cls |-> "", id |-> 0]
  ELSE [text |-> "int", cls |-> "", id |-> v.n]
\* What the to_json methods of this model return.
ToJSONReturns == {Null, IntObj(1)}

\* ro.ToJSON(t): findMethod("to_json").(*MethodObject) panics unless the
\* Object found holds a *MethodObject; ret is what evaluating it leaves on
\* the stack.
ToJSON(cls, b, ret) ==
  LET m == findMethod(cls, b, "to_json")
  IN  IF m.kind = "*MethodObject"
        THEN [NoOp EXCEPT !.meth = m, !.val = ret, !.str = ValueToString(ret),
                          !.flag = "returned"]
        ELSE [Panic EXCEPT !.meth = m]

CallToJSON(s) ==
  /\ Live(s)
  /\ heap[s].class # 0
  /\ \E ret \in ToJSONReturns :
       ores' = [ToJSON(classes, heap[s], ret) EXCEPT !.op = "ToJSON", !.obj = s]
  /\ UNCHANGED <<heap, classes, newpc, plug, collvars>>

\* The class layer defines a method in the table of class c, or removes it.
DefineMethod(c, m) ==
  /\ classes[c].Methods[m.name] # m
  /\ classes' = [classes EXCEPT ![c].Methods[m.name] = m]
  /\ UNCHANGED <<heap, newpc, ores, plug, collvars>>

RemoveMethod(c, name) ==
  /\ classes[c].Methods[name] # NoMethod
  /\ classes' = [classes EXCEPT ![c].Methods[name] = NoMethod]
  /\ UNCHANGED <<heap, newpc, ores, plug, collvars>>

\* The object this part is about: the first one constructed.
Obj == 1
\* NewBaseObject(c) has returned the object.
Constructed(c) ==
  [FreeSlot EXCEPT !.class = c, !.id = NewBaseObjectId(Obj).val, !.state = "live"]

InitLookup ==
  /\ ArrayInit
  /\ HashIdle
  /\ heap = [s \in Slots |-> IF s = Obj THEN Constructed(FooClass) ELSE FreeSlot]
  /\ classes = BareClasses
  /\ newpc = [t \in Threads |-> 0]
  /\ ores = NoOp
  /\ plug = NoPlugin

\* Methods come and go in the three classes, the object gets and loses its
\* singleton class, and methods are looked up.
NextLookup ==
  \/ \E c \in ClassIds, name \in MethodNames : DefineMethod(c, MethodObject(c, name))
  \/ DefineMethod(ObjectClass, BuiltinMethodObject(ObjectClass, "to_json"))
  \/ \E c \in ClassIds, name \in MethodNames : RemoveMethod(c, name)
  \/ \E c \in {0, SingletonOfFoo} : SetSingletonClass(Obj, c)
  \/ \E name \in MethodNames : CallFindMethod(Obj, name)
  \/ \E searchAncestor \in BOOLEAN : CallFindMethodMissing(Obj, searchAncestor)
  \/ CallToJSON(Obj)

SpecLookup == InitLookup /\ [][NextLookup]_vars

\* The step is a return of operation op.
Returned(op) == ores' # ores /\ ores'.op = op
Defines(c, name) == c # 0 /\ classes[c].Methods[name] # NoMethod
\* The method of the owner class's chain: Foo's, else Object's, else absent.
ChainMethod(name) ==
  IF Defines(FooClass, name) THEN classes[FooClass].Methods[name]
  ELSE classes[ObjectClass].Methods[name]

\* C22: findMethod(X) returns the singleton class's X if the object has a
\* singleton class that defines X, else the X of the owner class's chain,
\* else the absent method; and neither a lookup nor SetSingletonClass
\* changes a method table.
C22_ResolutionPrecedence ==
  [][/\ Returned("findMethod") =>
          /\ ores'.meth = IF Defines(heap[Obj].singletonClass, ores'.arg)
                            THEN classes[heap[Obj].singletonClass].Methods[ores'.arg]
                            ELSE ChainMethod(ores'.arg)
          /\ classes' = classes
     /\ Returned("SetSingletonClass") => classes' = classes]_vars

\* Singleton class and owner class both define x, and the lookup of x has
\* returned the singleton class's.
C22_Witness ==
  /\ ores.op = "findMethod" /\ ores.arg = "x"
  /\ heap[Obj].singletonClass = SingletonOfFoo
  /\ Defines(SingletonOfFoo, "x") /\ Defines(FooClass, "x")
  /\ ores.meth = MethodObject(SingletonOfFoo, "x")

\* C23: findMethodMissing(searchAncestors) returns the singleton class's own
\* method_missing, else the owner class's own, else, only with
\* searchAncestors, what the full search finds (the ancestor's hook), else
\* the absent method.
C23_MethodMissingOrder ==
  [][Returned("findMethodMissing") =>
       ores'.meth =
         IF Defines(heap[Obj].singletonClass, "method_missing")
           THEN classes[heap[Obj].singletonClass].Methods["method_missing"]
         ELSE IF Defines(FooClass, "method_missing")
           THEN classes[FooClass].Methods["method_missing"]
         ELSE IF ores'.arg = "true" THEN classes[ObjectClass].Methods["method_missing"]
         ELSE NoMethod]_vars

\* A hook defined on the ancestor only, not searched for and not returned.
C23_Witness ==
  /\ ores.op = "findMethodMissing" /\ ores.arg = "false"
  /\ Defines(ObjectClass, "method_missing")
  /\ ~Defines(FooClass, "method_missing")
  /\ ~Defines(heap[Obj].singletonClass, "method_missing")
  /\ ores.meth = NoMethod

\* C24: ToJSON of a user-class object returns the string of what the
\* user-defined to_json returns if resolution finds one, and else (no
\* to_json, or a builtin one) returns the object's ToString without failing.
C24_ToJSONFallsBack ==
  [][Returned("ToJSON") =>
       IF findMethod(classes, heap[Obj], "to_json").kind = "*MethodObject"
         THEN ores'.flag = "returned" /\ ores'.str = ValueToString(ores'.val)
         ELSE ores'.flag = "returned"
              /\ ores'.str = RObjectToString(classes, heap[Obj])]_vars

\* ------------------------------------------------ the protocol of one object
\* The values stored in instance variables.
IvVals == {IntObj(1), IntObj(2)}

\* One object is constructed, with the class Foo or with a nil class, and
\* then used.
NextProtocol ==
  \/ /\ \A s \in Slots : heap[s].state = "free"
     /\ \E c \in {0, FooClass} : NewBaseObjectAlloc(1, c)
  \/ NewBaseObjectReturn(1)
  \/ \E s \in Slots :
       \/ CallID(s)
       \/ CallClass(s)
       \/ CallSingletonClass(s)
       \/ \E c \in {0, SingletonOfFoo} : SetSingletonClass(s, c)
       \/ \E name \in EnvNames : InstanceVariableGet(s, name)
       \/ \E name \in EnvNames, value \in IvVals : InstanceVariableSet(s, name, value)

SpecProtocol == Init /\ [][NextProtocol]_vars

\* The object the last operation was called on, before and after the step.
Recv == heap[ores'.obj]
RecvAfter == heap'[ores'.obj]

\* C25: a get of a name never set returns the null object and false; a set
\* returns the value it stored under the name and leaves every other name as
\* it was; the variables change in no other step, so a get returns the value
\* of the last set of its name, and true.
C25_InstanceVariableProtocol ==
  [][/\ Returned("NewBaseObject") /\ ores'.flag = "returned" =>
          \A n \in EnvNames : RecvAfter.InstanceVariables[n] = Absent
     /\ Returned("InstanceVariableGet") =>
          IF Recv.InstanceVariables[ores'.arg] = Absent
            THEN ores'.val = Null /\ ores'.flag = "false"
            ELSE ores'.val = Recv.InstanceVariables[ores'.arg] /\ ores'.flag = "true"
     /\ Returned("InstanceVariableSet") =>
          /\ ores'.val \in IvVals
          /\ RecvAfter.InstanceVariables[ores'.arg] = ores'.val
          /\ \A n \in EnvNames \ {ores'.arg} :
               RecvAfter.InstanceVariables[n] = Recv.InstanceVariables[n]
     /\ \A s \in Slots :
          (Live(s) /\ ~Returned("InstanceVariableSet")) =>
             heap'[s].InstanceVariables = heap[s].InstanceVariables]_vars

\* A get of a name never set has returned (null, false) on an object that
\* has the other name set.
C25_Witness ==
  /\ ores.op = "InstanceVariableGet" /\ ores.arg = "@a"
  /\ ores.val = Null /\ ores.flag = "false"
  /\ heap[ores.obj].InstanceVariables["@context"] = IntObj(2)

\* C28: a new object has no singleton class; SetSingletonClass(c) makes c the
\* singleton class and leaves class, id and instance variables as they were;
\* no other operation changes the singleton class, and SingletonClass()
\* returns it: the argument of the most recent SetSingletonClass.
C28_SingletonClassLastWrite ==
  [][/\ Returned("NewBaseObject") /\ ores'.flag = "returned" =>
          RecvAfter.singletonClass = 0
     /\ Returned("SetSingletonClass") =>
          RecvAfter = [Recv EXCEPT !.singletonClass = ores'.val.n]
     /\ Returned("SingletonClass") => ores'.val.n = Recv.singletonClass
     /\ \A s \in Slots :
          (Live(s) /\ ~Returned("SetSingletonClass")) =>
             heap'[s].singletonClass = heap[s].singletonClass]_vars

\* SingletonClass() has returned the class that was set, on an object of
\* class Foo with an instance variable.
C28_Witness ==
  /\ ores.op = "SingletonClass" /\ ores.val = IntObj(SingletonOfFoo)
  /\ heap[ores.obj].InstanceVariables["@a"] # Absent
  /\ heap[ores.obj].class = FooClass

\* C29: no object with a nil class is ever returned by NewBaseObject, so
\* ID(), InstanceVariableGet and SingletonClass never succeed on one; and
\* Class() panics only on an object whose class is nil.
C29_NilClassFailsAtConstruction ==
  /\ \A s \in Slots : Live(s) => heap[s].class # 0
  /\ (ores.op = "Class" /\ ores.flag = "panic") => heap[ores.obj].class = 0

\* ============================================================== NullObject
\* NULL = &NullObject{BaseObj: NewBaseObject(nc)}: the one null object.
NULL ==
  [gotype |-> "*NullObject", id |-> NewBaseObjectId(Obj).val, class |-> "Null",
   ivars |-> NoIvars, val |-> 0, elems |-> <<>>]
\* A *NullObject that is not NULL: the nil pointer the plugin package copied
\* from vm.NULL before the Null class was initialized.
NilNullObject == [NULL EXCEPT !.id = 0]

\* An equalTo that compares the types only.
NullEqualToByType(n, compared) == compared.gotype = "*NullObject"
\* NullObject.equalTo: n == compared, the same pointer of the same type.
NullEqualTo(n, compared) == compared.gotype = "*NullObject" /\ compared.id = n.id

NullIsTruthy == FALSE
BaseIsTruthy == TRUE
\* o.isTruthy(): NullObject's own method, else the one promoted from BaseObj.
IsTruthy(o) == IF o.gotype = "*NullObject" THEN NullIsTruthy ELSE BaseIsTruthy

NullToString == [NoStr EXCEPT !.text = ""]
NullInspect == [NoStr EXCEPT !.text = "nil"]
NullToJSON == [NoStr EXCEPT !.text = "null"]

\* The objects NULL is compared with: itself, the nil *NullObject, the
\* integer 0 and the objects of the equality model, the empty array included.
NullCompared == EqObjects \cup {NULL, NilNullObject, IntegerObject(0)}
\* The types of this model that take isTruthy from BaseObj.
BaseTruthyTypes == {"*RObject", "*ConcurrentArrayObject"}

InitNull ==
  /\ ArrayInit
  /\ maps = [m \in MapIds |-> EmptyMap]
  /\ internalMap = 0
  /\ hframe = [t \in Threads |-> NoTraversal]
  /\ hresult = [t \in Threads |-> NoValue]
  /\ wrote = [t \in Threads |-> NoValue]
  /\ ObjIdle
  /\ \E b \in NullCompared : eq = [a |-> NULL, b |-> b, res |-> "none"]

\* NULL.equalTo(b)
NullCompare ==
  /\ eq.res = "none"
  /\ eq' = [eq EXCEPT !.res = IF NullEqualTo(eq.a, eq.b) THEN "true" ELSE "false"]
  /\ UNCHANGED <<avars, ovars, calls, maps, internalMap, hframe, hresult, wrote>>

\* o.isTruthy(), on NULL or on the other object.
CallIsTruthy ==
  /\ \E o \in {eq.a, eq.b} :
       /\ o.gotype \in BaseTruthyTypes \cup {"*NullObject"}
       /\ o # NilNullObject
       /\ ores' = [NoOp EXCEPT !.op = "isTruthy", !.arg = o.gotype,
                               !.flag = IF IsTruthy(o) THEN "true" ELSE "false"]
  /\ UNCHANGED <<heap, classes, newpc, plug, collvars>>

\* NULL.ToString(), NULL.Inspect(), NULL.ToJSON(t)
CallNullString(op, str) ==
  /\ ores' = [NoOp EXCEPT !.op = op, !.arg = "*NullObject", !.str = str,
                          !.flag = "returned"]
  /\ UNCHANGED <<heap, classes, newpc, plug, collvars>>

NextNull ==
  \/ NullCompare
  \/ CallIsTruthy
  \/ CallNullString("ToString", NullToString)
  \/ CallNullString("Inspect", NullInspect)
  \/ CallNullString("ToJSON", NullToJSON)

SpecNull == InitNull /\ [][NextNull]_vars

PluginObj == [k |-> "plugin", n |-> 0, s |-> <<>>]

\* compileAndOpenPlugin(soName, fileName): plugin.Open; if that fails, go
\* build and plugin.Open again.  The arguments say which of them succeed.
CompileAndOpenPlugin(open1, build, open2) ==
  IF open1 THEN [p |-> "opened", err |-> "nil"]
  ELSE IF ~build THEN [p |-> "nil", err |-> "build"]
  ELSE IF ~open2 THEN [p |-> "nil", err |-> "open"]
  ELSE [p |-> "opened", err |-> "nil"]

\* fileExists(path): os.Stat finds the directory, finds nothing, or fails.
FileExists(stat) ==
  CASE stat = "exists" -> [ok |-> TRUE, err |-> "nil"]
    [] stat = "missing" -> [ok |-> FALSE, err |-> "nil"]
    [] OTHER -> [ok |-> TRUE, err |-> "stat"]

\* Plugin#compile on the plugin object.  contextOk: the context object has
\* the arrays setPluginContext asserts; create: os.OpenFile succeeds.
Compile ==
  /\ Live(Obj)
  /\ \E stat \in {"exists", "missing", "error"}, contextOk \in BOOLEAN,
        create \in BOOLEAN, open1 \in BOOLEAN, build \in BOOLEAN, open2 \in BOOLEAN :
       \E p \in {CompileAndOpenPlugin(open1, build, open2)} :
         plug' =
           IF heap[Obj].InstanceVariables["@context"] = Absent
             THEN [plug EXCEPT !.op = "compile", !.fail = "no context",
                               !.ret = Null, !.called = "false"]
           ELSE IF FileExists(stat).err # "nil"
             THEN [plug EXCEPT !.op = "compile", !.fail = "stat",
                               !.ret = ErrObj("InternalError"), !.called = "false"]
           ELSE IF ~contextOk
             THEN [plug EXCEPT !.op = "compile", !.fail = "context",
                               !.ret = Panicked, !.called = "false"]
           ELSE IF ~create
             THEN [plug EXCEPT !.op = "compile", !.fail = "create",
                               !.ret = ErrObj("InternalError"), !.called = "false"]
           ELSE [plugin |-> p.p, op |-> "compile",
                 fail |-> IF p.err # "nil" THEN "compile" ELSE "none",
                 ret |-> PluginObj, called |-> "false"]
  /\ UNCHANGED <<heap, classes, newpc, ores, collvars>>

\* What reflect's Call does with the arguments of a failed conversion: it
\* panics on their number or types, or calls the function.
CallOutcomes(convertOk) ==
  IF convertOk THEN {[ret |-> IntObj(1), called |-> "true"]}
  ELSE {[ret |-> Panicked, called |-> "false"], [ret |-> IntObj(1), called |-> "true"]}

\* Plugin#go_func on the plugin object.  isString: args[0] is a String;
\* lookupOk: the plugin has the symbol; convertOk: ConvertToGoFuncArgs
\* returns no error.
GoFunc ==
  /\ Live(Obj)
  /\ \E isString \in BOOLEAN, lookupOk \in BOOLEAN, convertOk \in BOOLEAN :
       \E out \in CallOutcomes(convertOk) :
         plug' =
           IF ~isString
             THEN [plug EXCEPT !.op = "go_func", !.fail = "argument type",
                               !.ret = ErrObj("TypeError"), !.called = "false"]
           ELSE IF plug.plugin = "nil"
             THEN [plug EXCEPT !.op = "go_func", !.fail = "nil plugin",
                               !.ret = Panicked, !.called = "false"]
           ELSE IF ~lookupOk
             THEN [plug EXCEPT !.op = "go_func", !.fail = "lookup",
                               !.ret = ErrObj("InternalError"), !.called = "false"]
           ELSE [plug EXCEPT !.op = "go_func",
                             !.fail = IF convertOk THEN "none" ELSE "convert",
                             !.ret = out.ret, !.called = out.called]
  /\ UNCHANGED <<heap, classes, newpc, ores, collvars>>

\* The plugin object exists; its @context and another variable are set and
\* the two builtin methods called.
NextPlugin ==
  \/ Compile
  \/ GoFunc
  \/ \E name \in EnvNames, value \in IvVals : InstanceVariableSet(Obj, name, value)

SpecPlugin == InitLookup /\ [][NextPlugin]_vars

\* C27: Plugin#compile returns an InternalError object, not the receiver,
\* when compiling or opening the generated plugin fails, and Plugin#go_func
\* returns a TypeError object without calling the native function when the
\* conversion of its arguments fails.
C27_PluginErrorsReturned ==
  /\ (plug.op = "compile" /\ plug.fail = "compile") =>
       plug.ret = ErrObj("InternalError")
  /\ (plug.op = "go_func" /\ plug.fail = "convert") =>
       plug.ret = ErrObj("TypeError") /\ plug.called = "false"

\* ==================================== the Object methods of ConcurrentArray
\* ToJSON, ToString, Inspect, Value and equalTo of the concurrent array, which
\* go to InternalArray directly.
DescribeOps == {"ToJSON", "ToString", "Inspect", "Value", "equalTo"}

\* Thread t calls one of them on concurrent array a (equalTo with the root
\* as the other operand): the Elements are read as they are at this moment,
\* and no lock is asked for.
Describe(t, op, a) ==
  /\ stack[t] = <<>>
  /\ elems[a] # NoHdr
  /\ op = "equalTo" => elems[Root] # NoHdr
  /\ ores' = [NoOp EXCEPT !.op = op, !.obj = a,
                          !.val = IntObj(elems[a].len), !.flag = "returned"]
  /\ UNCHANGED <<heap, classes, newpc, plug, collvars>>

\* Thread 1 calls the forwarded methods while thread 2 asks the array for
\* its forms and compares it.
NextDescribe ==
  \/ Step(1)
  \/ \E op \in DescribeOps, a \in Arrays : Describe(2, op, a)

SpecDescribe == Init /\ [][NextDescribe]_vars

\* C30: ToString, Inspect, ToJSON, Value and equalTo never read the elements
\* of a concurrent array while another thread is inside a writing method of
\* the same array, that is, holds its exclusive lock.
C30_FormsReadUnderLock ==
  [][(ores' # ores /\ ores'.op \in DescribeOps) =>
       /\ writer[ores'.obj] # "held"
       /\ ores'.op = "equalTo" => writer[Root] # "held"]_vars

\* ================================================ writers of one sequence
\* A thread calls a writing method of the root: thread 1 MaxWrites times,
\* one after the other, every other thread once.
CallWrite(t) ==
  /\ stack[t] = <<>>
  /\ calls[t] < (IF t = 1 THEN MaxWrites ELSE 1)
  /\ \E op \in WriteOps, v \in Vals :
       Install(store, src, elems, readers, writer,
               [stack EXCEPT ![t] = <<NewFrame(Root, op, v, NoCb)>>],
               [result EXCEPT ![t] = NoValue])
  /\ calls' = [calls EXCEPT ![t] = @ + 1]

NextWriters ==
  \E t \in Threads :
    \/ CallWrite(t)
    \/ LockAnnounce(t)
    \/ LockEnter(t)
    \/ RunLoad(t)
    \/ Commit(t)
    \/ Release(t)
    \/ Wrap(t)

SpecWriters == Init /\ [][NextWriters]_vars

\* What a write does to the contents when it is applied alone: push appends,
\* []= replaces the first element.
AppliedAlone(c, op, v) ==
  IF op = "push" \/ c = <<>> THEN Append(c, v) ELSE [c EXCEPT ![1] = v]
RootContents == Contents(store, elems[Root])
\* Thread t's write takes effect in this step.
Commits(t) == stack[t] # <<>> /\ Top(t).pc = "commit" /\ stack'[t] # stack[t]

\* C31: the writes of the threads on one sequence take effect one at a time:
\* each changes the contents the writes before it left exactly as it would
\* alone, a push growing the length by one, and the contents change in no
\* other step; a thread's writes take effect in the order it issued them,
\* since it issues the next only after the one before returned.
C31_WritesLinearizable ==
  [][/\ \A t \in Threads :
          Commits(t) =>
            /\ RootContents' = AppliedAlone(RootContents, Top(t).op, Top(t).v)
            /\ Top(t).op = "push" => elems'[Root].len = elems[Root].len + 1
            /\ \A u \in Threads \ {t} : ~Commits(u)
     /\ (\A t \in Threads : ~Commits(t)) => RootContents' = RootContents]_vars

\* Every thread has made all its calls and the last write is about to take
\* effect while another thread's write already has: the root has grown.
C31_Witness ==
  /\ calls[1] = MaxWrites /\ \A t \in Threads : calls[t] >= 1
  /\ \E t \in Threads : stack[t] # <<>> /\ Top(t).pc = "commit" /\ Top(t).op = "push"
  /\ elems[Root].len > NumThreads

\* C32: the concurrent sequence a forwarded method hands back does not share
\* element storage with the receiver: no backing array is the storage of two
\* concurrent sequences, that is, reachable under two different locks.
C32_NoStorageUnderTwoLocks ==
  [][\A t \in Threads :
       (/\ stack[t] # <<>> /\ Top(t).pc = "wrap" /\ Depth(t) = 1
        /\ RequireWriteLock(Top(t).op)
        /\ result'[t].k = "carray")
       => \/ elems'[result'[t].n].st = 0
          \/ elems'[result'[t].n].st # elems'[Top(t).arr].st]_vars

\* C33: the default equality is reflexive and symmetric on objects of user
\* classes: x.equalTo(x) is true, and x.equalTo(y) is what y.equalTo(x) is.
C33_DefaultEqualityReflexiveSymmetric ==
  (eq.res # "none" /\ eq.a.gotype = "*RObject" /\ eq.b.gotype = "*RObject") =>
     /\ eq.a = eq.b => eq.res = "true"
     /\ eq.res = "true" <=> EqualTo(eq.b, eq.a)

\* =================================== hash calls from inside the each block
\* A Range that keeps the map locked while the iterator runs.
RangeLocksMapAcrossIterator(pc) == pc = "inner"
\* internalMap.Range(iterator): the iterator is called with no lock of the
\* map held, so it may call any method of the map.
RangeLocksMap(pc) == FALSE

\* The block, yielded an entry, calls a method of the same hash.
HEachInner(t) ==
  /\ hframe[t].pc = "range"
  /\ \E key \in HKeys : hframe[t].visits[key] # <<>>
  /\ calls[t] < MaxHashCalls
  /\ hframe' = [hframe EXCEPT ![t].pc = "inner"]
  /\ calls' = [calls EXCEPT ![t] = @ + 1]
  /\ UNCHANGED <<avars, ovars, maps, internalMap, hresult, wrote, eq>>

\* The method the block called ([], []=, delete or has_key?, with any
\* arguments) returns to the block, the block to the iterator, and Range
\* goes on.
HInnerReturn(t) ==
  /\ hframe[t].pc = "inner"
  /\ ~RangeLocksMap(hframe[t].pc)
  /\ \E name \in HashMethods, args \in ArgLists :
     \E r \in {HashMethod(name, maps[internalMap], args)} :
     \E key \in {WrittenKey(name, args)} :
       /\ maps' = [maps EXCEPT ![internalMap] = r[1]]
       /\ hframe' = [u \in Threads |->
                      [hframe[u] EXCEPT
                         !.pc = IF u = t THEN "range" ELSE @,
                         !.stable = IF key # 0 THEN [@ EXCEPT ![key] = Absent] ELSE @]]
  /\ UNCHANGED <<avars, ovars, calls, internalMap, hresult, wrote, eq>>

\* Thread 1 calls each once; its block calls methods of the hash it is
\* traversing.
NextHashInner ==
  \/ calls[1] = 0 /\ HEachStart(1)
  \/ HEachVisit(1)
  \/ HEachLate(1)
  \/ HEachInner(1)
  \/ HInnerReturn(1)
  \/ HEachEnd(1)

\* The thread goes on whenever it can: a call that is not blocked returns,
\* and Range goes to its next entry or ends.
SpecHashInner ==
  /\ InitHashEach
  /\ [][NextHashInner]_vars
  /\ WF_vars(HEachVisit(1) \/ HInnerReturn(1) \/ HEachEnd(1))

\* C34: a call of [], []=, delete or has_key? on the same hash from the
\* block of each, on the same thread, returns, and each itself returns: the
\* traversal keeps no lock while the block runs.
C34_InnerHashCallsReturn ==
  /\ (hframe[1].pc = "inner") ~> (hframe[1].pc = "range")
  /\ (hframe[1].pc = "range") ~> (hframe[1].pc = "done")

\* each has returned the hash after its block made calls on the hash.
C34_Witness ==
  /\ hframe[1].pc = "done" /\ hresult[1] = CHash
  /\ calls[1] = MaxHashCalls

\* ============================================ a read inside a read's block
\* No block calls a write-classified method of the array it runs under.
NoWriteReentry ==
  \A p \in Frames(stack) :
    ~(/\ FrameAt(p).cb.kind = "call"
      /\ FrameAt(p).cb.arr = FrameAt(p).arr
      /\ FrameAt(p).cb.op \in ClaimWriteNames)

\* Thread t's block, run by a read-classified method, has called a
\* read-classified method of the same array.
NestedRead(t) ==
  /\ Len(stack[t]) = 2
  /\ stack[t][2].arr = stack[t][1].arr
  /\ stack[t][1].op \in ClaimReadNames
  /\ stack[t][2].op \in ClaimReadNames

\* C35: a read-classified call made from the block of a read-classified
\* call on the same concurrent array always returns to the block, also while
\* another thread waits for the exclusive lock of that array.
C35_NestedReadCompletes ==
  ([](BlocksReturn /\ NoWriteReentry))
    => \A t \in Threads : NestedRead(t) ~> (Len(stack[t]) < 2)
====
